---- MODULE Spec2Model ----
(***************************************************************************)
(* Model of the LMS Core API: role parsing (core/security/roles.py), the   *)
(* RBAC policy groups (api/security_policies.py), the principal resolver   *)
(* (core/security/oidc.py), the RBAC guard (api/deps.py) and the error     *)
(* envelope (core/errors.py).                                              *)
(*                                                                         *)
(* Python strings are sequences of one-character strings, so that strip,   *)
(* replace, upper, lower and split are computed character by character.    *)
(***************************************************************************)
EXTENDS Naturals, Integers, Sequences, FiniteSets, TLC

VARIABLES
    fsArg,      \* from_str: the argument of the last call
    fsRet,      \* from_str: what the last call returned or raised
    fsPc,       \* from_str: "idle" before a call, "returned" after it
    gUser,      \* guard call: the Principal passed to _enforce
    gRequired,  \* guard call: the roles require_roles was built from
    gRet,       \* guard call: the Principal returned or the HTTPException raised
    gPc,        \* guard call: "idle" before a call, "returned" after it
    policies,   \* module app.api.security_policies: import status and role groups
    routers,    \* modules app.api.routers.*: import status and endpoint guards
    environ,    \* os.environ: the value of AUTH_STUB
    settingsCache,  \* the lru_cache of get_settings(): empty or one Settings
    rq,         \* the request in flight: its headers
    rqRequired, \* the roles the guard of the endpoint it hits was built from
    rqPc,       \* where the request is: idle, resolve, guard, endpoint, responded
    rqPrincipal,    \* the resolved Principal, once there is one
    rqGuardRan,     \* whether _enforce was evaluated for this request
    rqServiceCalled,    \* whether the endpoint body called its service
    rqResponse, \* the response, once there is one
    pcSubject,  \* Principal(subject=...): the subject passed, when one is
    pcRet,      \* what the construction gave: a Principal or a ValidationError
    cmClaims,   \* _principal_from_claims: the verified claims it is called with
    cmRet,      \* what it gave: a Principal, or the exception it raised
    cmPc,       \* "idle" before a call, "returned" after it
    jwksByUri,  \* _JWKS_CACHE._by_uri: the cached client of each JWKS URI
    jwksMade,   \* how many PyJWKClient objects were constructed so far
    vSettings,  \* verify_access_token: the settings it is called with
    vToken,     \* the token it is called with
    vRet,       \* what it gave: a Principal, or the exception it raised
    vPc,        \* "idle" before a call, "returned" after it
    vClient,    \* the client the call took from the JWKS cache, if it took one
    getters,    \* _JWKSCache.get: where each calling thread is, its URI and result
    db,         \* MongoDB: the documents of each collection
    clock,      \* the last value datetime.now() gave
    madeIds,    \* how many ObjectIds insert_one generated so far
    viaService, \* history: the ids of the documents a create_<entity> call inserted
    pending,    \* the update between its update_one and its find_one, if any
    sCall,      \* service call: the operation and its arguments
    sRet        \* service call: what it returned or raised

roleVars == <<fsArg, fsRet, fsPc>>
guardVars == <<gUser, gRequired, gRet, gPc, policies, routers>>
rbacVars == <<environ, settingsCache, rq, rqRequired, rqPc, rqPrincipal, rqGuardRan,
              rqServiceCalled, rqResponse>>
claimsVars == <<pcSubject, pcRet, cmClaims, cmRet, cmPc>>
verifyVars == <<jwksByUri, jwksMade, vSettings, vToken, vRet, vPc, vClient>>
storeVars == <<db, clock, madeIds, viaService, pending, sCall, sRet>>
jwksVars == <<getters>>
vars == <<roleVars, guardVars, rbacVars, claimsVars, verifyVars, storeVars, jwksVars>>

\* What the actions of one part leave alone.
exceptRoleVars == <<guardVars, rbacVars, claimsVars, verifyVars, storeVars, jwksVars>>
exceptGuardVars == <<roleVars, rbacVars, claimsVars, verifyVars, storeVars, jwksVars>>
exceptRbacVars == <<roleVars, guardVars, claimsVars, verifyVars, storeVars, jwksVars>>
exceptClaimsVars == <<roleVars, guardVars, rbacVars, verifyVars, storeVars, jwksVars>>
exceptVerifyVars == <<roleVars, guardVars, rbacVars, claimsVars, storeVars, jwksVars>>
exceptJwksVars == <<roleVars, guardVars, rbacVars, claimsVars, storeVars,
                   vSettings, vToken, vRet, vPc, vClient>>
exceptStoreVars == <<roleVars, guardVars, rbacVars, claimsVars, verifyVars, jwksVars>>

(* ------------------------------ bounds --------------------------------- *)

\* Largest number of blanks put before and after a role string.
MaxPad == 1

\* Largest number of comma-separated entries of an X-Auth-Roles header.
MaxTokens == 2

\* Largest number of PyJWKClient objects constructed in one run.
MaxClients == 2

\* Number of threads that call _JWKSCache.get.
MaxCallers == 2

\* The number of ObjectIds from which on no create call is started.
MaxDocs == 2

\* The clock reading from which on no call that reads the clock is started.
MaxClock == 3

(* ------------------------- Python str methods -------------------------- *)

Lowers == <<"a", "b", "c", "d", "e", "f", "g", "h", "i", "j", "k", "l", "m", "n", "o", "p", "q", "r", "s", "t", "u", "v", "w", "x", "y", "z">>
Uppers == <<"A", "B", "C", "D", "E", "F", "G", "H", "I", "J", "K", "L", "M", "N", "O", "P", "Q", "R", "S", "T", "U", "V", "W", "X", "Y", "Z">>

SetMin(S) == CHOOSE x \in S : \A y \in S : x <= y
SetMax(S) == CHOOSE x \in S : \A y \in S : x >= y

CharUpper(c) ==
    IF \E i \in 1..Len(Lowers) : Lowers[i] = c
    THEN Uppers[CHOOSE i \in 1..Len(Lowers) : Lowers[i] = c]
    ELSE c

CharLower(c) ==
    IF \E i \in 1..Len(Uppers) : Uppers[i] = c
    THEN Lowers[CHOOSE i \in 1..Len(Uppers) : Uppers[i] = c]
    ELSE c

\* str.upper() and str.lower()
upper(s) == [i \in 1..Len(s) |-> CharUpper(s[i])]
lower(s) == [i \in 1..Len(s) |-> CharLower(s[i])]

\* The whitespace str.strip() removes (the blank and the tab stand for it).
IsSpace(c) == c \in {" ", "\t"}

\* str.strip()
strip(s) ==
    LET keep == {i \in 1..Len(s) : ~IsSpace(s[i])}
    IN  IF keep = {} THEN <<>> ELSE SubSeq(s, SetMin(keep), SetMax(keep))

\* str.replace(a, b) for one-character a and b
replace(s, a, b) == [i \in 1..Len(s) |-> IF s[i] = a THEN b ELSE s[i]]

(* --------------------- core/security/roles.py -------------------------- *)

\* class Role(str, Enum): the members in declaration order, which is the order
\* `for role in Role` visits them in. id is the member, name its .name and
\* value its .value.
RoleMembers == <<
    [id |-> "LEARNER", name |-> <<"L", "E", "A", "R", "N", "E", "R">>,
     value |-> <<"L", "e", "a", "r", "n", "e", "r">>],
    [id |-> "EMPLOYEE", name |-> <<"E", "M", "P", "L", "O", "Y", "E", "E">>,
     value |-> <<"E", "m", "p", "l", "o", "y", "e", "e">>],
    [id |-> "INSTRUCTOR", name |-> <<"I", "N", "S", "T", "R", "U", "C", "T", "O", "R">>,
     value |-> <<"I", "n", "s", "t", "r", "u", "c", "t", "o", "r">>],
    [id |-> "MANAGER", name |-> <<"M", "A", "N", "A", "G", "E", "R">>,
     value |-> <<"M", "a", "n", "a", "g", "e", "r">>],
    [id |-> "SUPERADMIN", name |-> <<"S", "U", "P", "E", "R", "A", "D", "M", "I", "N">>,
     value |-> <<"S", "u", "p", "e", "r", "A", "d", "m", "i", "n">>],
    [id |-> "ADMIN", name |-> <<"A", "D", "M", "I", "N">>,
     value |-> <<"A", "d", "m", "i", "n">>]
>>

Role == {RoleMembers[i].id : i \in 1..Len(RoleMembers)}


RoleIndex(r) == CHOOSE i \in 1..Len(RoleMembers) : RoleMembers[i].id = r

\* role.value, the string a role serialises to
RoleValue(r) == RoleMembers[RoleIndex(r)].value

\* What from_str raises.
ValueError == "ValueError"

\* The members the loop of from_str accepts for a stripped string.
RoleMatchesSuffix(normalized) ==
    LET key == upper(replace(replace(normalized, "-", "_"), " ", "_"))
        EndsWith(t, k) == Len(k) <= Len(t) /\ SubSeq(t, Len(t) - Len(k) + 1, Len(t)) = k
    IN  {i \in 1..Len(RoleMembers) :
            \/ EndsWith(RoleMembers[i].name, key)
            \/ lower(RoleMembers[i].value) = lower(normalized)}

RoleMatches(normalized) ==
    LET key == upper(replace(replace(normalized, "-", "_"), " ", "_"))
    IN  {i \in 1..Len(RoleMembers) :
            \/ RoleMembers[i].name = key
            \/ lower(RoleMembers[i].value) = lower(normalized)}

from_str_default(value) ==
    LET normalized == strip(value)
    IN  IF normalized = <<>> \/ RoleMatches(normalized) = {}
        THEN RoleMembers[1].id
        ELSE RoleMembers[SetMin(RoleMatches(normalized))].id

\* from_str: the first member, in declaration order, whose name equals the
\* upper-cased, separator-normalised string or whose value equals it up to case.
from_str(value) ==
    LET normalized == strip(value)
    IN  IF normalized = <<>>
        THEN ValueError
        ELSE IF RoleMatches(normalized) = {}
             THEN ValueError
             ELSE RoleMembers[SetMin(RoleMatches(normalized))].id

(* ----------------------- inputs of from_str ---------------------------- *)

\* The words of each role's name.
RoleWords(r) ==
    IF r = "LEARNER" THEN <<<<"L", "e", "a", "r", "n", "e", "r">>>>
    ELSE IF r = "EMPLOYEE" THEN <<<<"E", "m", "p", "l", "o", "y", "e", "e">>>>
    ELSE IF r = "INSTRUCTOR" THEN <<<<"I", "n", "s", "t", "r", "u", "c", "t", "o", "r">>>>
    ELSE IF r = "MANAGER" THEN <<<<"M", "a", "n", "a", "g", "e", "r">>>>
    ELSE IF r = "SUPERADMIN" THEN <<<<"S", "u", "p", "e", "r">>, <<"A", "d", "m", "i", "n">>>>
    ELSE <<<<"A", "d", "m", "i", "n">>>>

\* The separators a spelling may put between the words of a name.
Separators == {<<>>, <<"-">>, <<"_">>, <<" ">>}

RECURSIVE JoinWords(_, _)
JoinWords(ws, sep) ==
    IF Len(ws) = 0 THEN <<>>
    ELSE IF Len(ws) = 1 THEN ws[1]
    ELSE ws[1] \o sep \o JoinWords(Tail(ws), sep)

\* The letter cases a spelling is written in.
CaseModes == {"asis", "lower", "upper", "alternating"}

ApplyCase(s, mode) ==
    IF mode = "lower" THEN lower(s)
    ELSE IF mode = "upper" THEN upper(s)
    ELSE IF mode = "alternating"
         THEN [i \in 1..Len(s) |-> IF i % 2 = 1 THEN CharUpper(s[i]) ELSE CharLower(s[i])]
    ELSE s

Blanks(n) == [i \in 1..n |-> " "]

\* A spelling of role r: its words joined by sep, in letter case mode, between
\* padL and padR blanks.
Spelling(r, sep, mode, padL, padR) ==
    Blanks(padL) \o ApplyCase(JoinWords(RoleWords(r), sep), mode) \o Blanks(padR)

Spellings(r) ==
    {Spelling(r, sep, mode, padL, padR) :
        sep \in Separators, mode \in CaseModes, padL \in 0..MaxPad, padR \in 0..MaxPad}

\* Strings that name no role.
UnknownStrings == {
    <<>>,
    <<" ">>,
    <<" ", " ">>,
    <<"g", "u", "e", "s", "t">>,
    <<"a", "d", "m">>,
    <<"a", "d", "m", "i", "n", "s">>,
    <<"d", "m", "i", "n">>,
    <<"s", "u", "p", "e", "r">>,
    <<"l", "e", "a", "r", "n", "e", "r", " ", "a", "d", "m", "i", "n">>,
    <<"A", "d", "m", "i", "n", ",", "L", "e", "a", "r", "n", "e", "r">>,
    <<"r", "o", "l", "e">>,
    <<"s", "u", "p", "e", "r", ".", "a", "d", "m", "i", "n">>,
    <<"a", "d", "m", "1", "n">>
}

FromStrInputs == UNION {Spellings(r) : r \in Role} \cup UnknownStrings

\* The letters of a string, lower-cased, without blanks and separators.
Letters(s) ==
    LET keep == SelectSeq(s, LAMBDA c : ~IsSpace(c) /\ c \notin {"-", "_"})
    IN  lower(keep)

\* s names role r when its letters are those of r's value.
Names(s, r) == Letters(s) = lower(RoleValue(r))

(* ------------------- from_str as a state machine ----------------------- *)

InitRoles ==
    /\ fsArg = <<>>
    /\ fsRet = "none"
    /\ fsPc = "idle"

\* One call of from_str.
FromStrCall ==
    /\ fsPc = "idle"
    /\ \E s \in FromStrInputs :
        /\ fsArg' = s
        /\ fsRet' = from_str(s)
        /\ fsPc' = "returned"
    /\ UNCHANGED exceptRoleVars

\* The caller is ready for the next call.
FromStrNext ==
    /\ fsPc = "returned"
    /\ fsArg' = <<>>
    /\ fsRet' = "none"
    /\ fsPc' = "idle"
    /\ UNCHANGED exceptRoleVars


(* --------------------------- api/deps.py ------------------------------- *)

HTTP_403_FORBIDDEN == 403

\* An absent optional value (None) and a present one.
None == [present |-> FALSE, value |-> <<>>]
Some(v) == [present |-> TRUE, value |-> v]

\* Principal(subject=..., email=..., roles=...); roles is a list of Role.
Principal(subject, email, roles) == [subject |-> subject, email |-> email, roles |-> roles]

\* The headers of an exception or a response: a set of <<name, value>> pairs;
\* headers=None is the empty set.
NoHeaders == {}

\* raise HTTPException(status_code=..., detail=..., headers=...): the detail is
\* a message followed by the text formatted into it (empty for a fixed message).
HTTPExceptionWith(status_code, msg, arg, headers) ==
    [exception |-> "HTTPException", status_code |-> status_code,
     detail |-> [msg |-> msg, arg |-> arg], headers |-> headers]

\* raise HTTPException(status_code=..., detail=...), headers left at None.
HTTPException(status_code, msg, arg) ==
    HTTPExceptionWith(status_code, msg, arg, NoHeaders)

IsHTTPException(x) == "exception" \in DOMAIN x

\* str(r) of a member of class Role(str, Enum) is "Role." followed by its name.
RoleStr(r) == <<"R", "o", "l", "e", ".">> \o RoleMembers[RoleIndex(r)].name

enforce_empty_passes(user, required) ==
    LET user_role_strings == {RoleStr(user.roles[i]) : i \in 1..Len(user.roles)}
        required_strings == {RoleStr(r) : r \in required}
    IN  IF required = {} \/ (user_role_strings \cap required_strings) # {}
        THEN user
        ELSE HTTPException(HTTP_403_FORBIDDEN, "Forbidden", <<>>)

enforce_all_of(user, required) ==
    LET user_role_strings == {RoleStr(user.roles[i]) : i \in 1..Len(user.roles)}
        required_strings == {RoleStr(r) : r \in required}
    IN  IF ~(required_strings \subseteq user_role_strings)
        THEN HTTPException(HTTP_403_FORBIDDEN, "Forbidden", <<>>)
        ELSE user

enforce_skips_roleless(user, required) ==
    LET user_role_strings == {RoleStr(user.roles[i]) : i \in 1..Len(user.roles)}
        required_strings == {RoleStr(r) : r \in required}
    IN  IF user_role_strings # {} /\ (user_role_strings \cap required_strings) = {}
        THEN HTTPException(HTTP_403_FORBIDDEN, "Forbidden", <<>>)
        ELSE user

\* require_roles(required)._enforce(user): the dependency require_roles returns,
\* applied to the Principal that get_current_user yields.
enforce(user, required) ==
    LET user_role_strings == {RoleStr(user.roles[i]) : i \in 1..Len(user.roles)}
        required_strings == {RoleStr(r) : r \in required}
    IN  IF (user_role_strings \cap required_strings) = {}
        THEN HTTPException(HTTP_403_FORBIDDEN, "Forbidden", <<>>)
        ELSE user


(* --------------------- api/security_policies.py ------------------------ *)

\* The attributes of Role that each group's frozenset literal reads.
READ_ROLES_refs == {"LEARNER", "EMPLOYEE", "INSTRUCTOR", "MANAGER", "ADMIN", "SUPER_ADMIN"}
WRITE_ROLES_refs == {"INSTRUCTOR", "MANAGER", "ADMIN", "SUPER_ADMIN"}
ADMIN_ROLES_refs == {"ADMIN", "SUPER_ADMIN"}

\* Role.<attr> is a member when the canonical enumeration has one of that name
\* and raises AttributeError otherwise.
HasRoleAttr(attr) == attr \in Role

NoGroups == [READ_ROLES |-> {}, WRITE_ROLES |-> {}, ADMIN_ROLES |-> {}]

\* Executing the module body: `from app.core.security.roles import Role`
\* succeeds, so the fallback enumeration is not used, and the three frozensets
\* are built from attributes of the canonical Role.
import_security_policies ==
    IF \A attr \in READ_ROLES_refs \cup WRITE_ROLES_refs \cup ADMIN_ROLES_refs :
            HasRoleAttr(attr)
    THEN [status |-> "loaded",
          groups |-> [READ_ROLES |-> READ_ROLES_refs,
                      WRITE_ROLES |-> WRITE_ROLES_refs,
                      ADMIN_ROLES |-> ADMIN_ROLES_refs]]
    ELSE [status |-> "AttributeError", groups |-> NoGroups]

(* ------------------------- api/routers/*.py ---------------------------- *)

Routers == {"users", "content", "assessments"}

Endpoints == {"list", "get", "create", "update", "delete"}

\* The group named in Depends(require_roles(*GROUP)) of each endpoint; the three
\* routers name the same groups.
EndpointGroup(endpoint) ==
    IF endpoint \in {"list", "get"} THEN "READ_ROLES"
    ELSE IF endpoint \in {"create", "update"} THEN "WRITE_ROLES"
    ELSE "ADMIN_ROLES"

\* require_roles(required_roles) declares one positional parameter.
RequireRolesArity == 1

NoGuards == [e \in Endpoints |-> {}]

\* require_roles(*group): one positional argument per member of the group. With
\* exactly one argument the call binds that Role, a str, as the iterable, whose
\* items are characters and no roles.
StarCallBinds(group) == Cardinality(group) = RequireRolesArity

\* Executing a router module: it imports security_policies, then evaluates the
\* decorators and default arguments of its five endpoints.
import_router(pol) ==
    IF pol.status # "loaded"
    THEN [status |-> pol.status, guards |-> NoGuards]
    ELSE IF \E e \in Endpoints : ~StarCallBinds(pol.groups[EndpointGroup(e)])
         THEN [status |-> "TypeError", guards |-> NoGuards]
         ELSE [status |-> "loaded", guards |-> NoGuards]   \* characters, no Role

Unimported == [status |-> "unimported", groups |-> NoGroups]
UnimportedRouter == [status |-> "unimported", guards |-> NoGuards]

(* -------------------- the guard as a state machine --------------------- *)

\* The roles of a set as a list, in declaration order.
RECURSIVE RoleList(_, _)
RoleList(S, i) ==
    IF i > Len(RoleMembers) THEN <<>>
    ELSE (IF RoleMembers[i].id \in S THEN <<RoleMembers[i].id>> ELSE <<>>)
         \o RoleList(S, i + 1)

SubjectU1 == <<"u", "1">>

InitGuard ==
    /\ gUser = Principal(<<>>, None, <<>>)
    /\ gRequired = {}
    /\ gRet = Principal(<<>>, None, <<>>)
    /\ gPc = "idle"
    /\ policies = Unimported
    /\ routers = [r \in Routers |-> UnimportedRouter]

\* One call of the dependency built by require_roles(required).
EnforceCall ==
    /\ gPc = "idle"
    /\ \E held \in SUBSET Role, required \in SUBSET Role :
        /\ gUser' = Principal(SubjectU1, None, RoleList(held, 1))
        /\ gRequired' = required
        /\ gRet' = enforce(gUser', required)
        /\ gPc' = "returned"
    /\ UNCHANGED <<policies, routers>>
    /\ UNCHANGED exceptGuardVars

\* The caller is ready for the next call.
EnforceNext ==
    /\ gPc = "returned"
    /\ gUser' = Principal(<<>>, None, <<>>)
    /\ gRequired' = {}
    /\ gRet' = Principal(<<>>, None, <<>>)
    /\ gPc' = "idle"
    /\ UNCHANGED <<policies, routers>>
    /\ UNCHANGED exceptGuardVars

\* `import app.api.security_policies`
ImportSecurityPolicies ==
    /\ policies.status = "unimported"
    /\ policies' = import_security_policies
    /\ UNCHANGED <<gUser, gRequired, gRet, gPc, routers>>
    /\ UNCHANGED exceptGuardVars

\* `import app.api.routers.<r>`, which imports security_policies first when
\* nothing has imported it yet.
ImportRouter ==
    \E r \in Routers :
        /\ routers[r].status = "unimported"
        /\ policies' = IF policies.status = "unimported"
                       THEN import_security_policies ELSE policies
        /\ routers' = [routers EXCEPT ![r] = import_router(policies')]
        /\ UNCHANGED <<gUser, gRequired, gRet, gPc>>
        /\ UNCHANGED exceptGuardVars


(* --------------------------- core/config.py ---------------------------- *)

\* Settings(): auth_stub is read from AUTH_STUB and defaults to True.
Settings(env) == [auth_stub |-> IF env = "unset" THEN TRUE ELSE env = "true"]

\* get_settings() under lru_cache(maxsize=1): the cached Settings when there is
\* one, else a new Settings built from the environment.
get_settings(cache, env) == IF cache # <<>> THEN cache[1] ELSE Settings(env)

(* ------------------------ core/security/oidc.py ------------------------ *)

HTTP_501_NOT_IMPLEMENTED == 501
HTTP_400_BAD_REQUEST == 400

StubUser == <<"s", "t", "u", "b", "-", "u", "s", "e", "r">>

\* str.split(","): the pieces between the commas, empty pieces included.
RECURSIVE split(_, _)
split(str, sep) ==
    IF \A i \in 1..Len(str) : str[i] # sep
    THEN <<str>>
    ELSE LET k == SetMin({i \in 1..Len(str) : str[i] = sep})
         IN  <<SubSeq(str, 1, k - 1)>> \o split(SubSeq(str, k + 1, Len(str)), sep)

\* str(e) of the ValueError from_str raises for a string.
from_str_error(value) ==
    IF strip(value) = <<>>
    THEN [msg |-> "Role string is empty", arg |-> <<>>]
    ELSE [msg |-> "Unknown role: ", arg |-> value]

parse_roles_csv_first_only(csv_value) ==
    LET pieces == split(csv_value, ",")
        parts == [i \in 1..Len(pieces) |-> strip(pieces[i])]
        kept == SelectSeq(parts, LAMBDA q : q # <<>>)
    IN  IF kept = <<>>
        THEN [raised |-> FALSE, roles |-> <<>>, error |-> [msg |-> "", arg |-> <<>>]]
        ELSE IF from_str(kept[1]) = ValueError
        THEN [raised |-> TRUE, roles |-> <<>>, error |-> from_str_error(kept[1])]
        ELSE [raised |-> FALSE, roles |-> <<from_str(kept[1])>>,
              error |-> [msg |-> "", arg |-> <<>>]]

parse_roles_csv_skip_unknown(csv_value) ==
    LET pieces == split(csv_value, ",")
        parts == [i \in 1..Len(pieces) |-> strip(pieces[i])]
        kept == SelectSeq(parts, LAMBDA q : q # <<>> /\ from_str(q) # ValueError)
    IN  [raised |-> FALSE,
         roles |-> [i \in 1..Len(kept) |-> from_str(kept[i])],
         error |-> [msg |-> "", arg |-> <<>>]]

\* _parse_roles_csv: the roles of the non-empty stripped pieces, in order; the
\* first piece from_str rejects raises its ValueError.
_parse_roles_csv(csv_value) ==
    IF csv_value = <<>>
    THEN [raised |-> FALSE, roles |-> <<>>, error |-> [msg |-> "", arg |-> <<>>]]
    ELSE LET pieces == split(csv_value, ",")
             parts == [i \in 1..Len(pieces) |-> strip(pieces[i])]
             kept == SelectSeq(parts, LAMBDA q : q # <<>>)
             bad == {i \in 1..Len(kept) : from_str(kept[i]) = ValueError}
         IN  IF bad # {}
             THEN [raised |-> TRUE, roles |-> <<>>,
                   error |-> from_str_error(kept[SetMin(bad)])]
             ELSE [raised |-> FALSE,
                   roles |-> [i \in 1..Len(kept) |-> from_str(kept[i])],
                   error |-> [msg |-> "", arg |-> <<>>]]

\* request.headers.get(name) or default
HeaderOr(h, default) == IF h.present /\ h.value # <<>> THEN h.value ELSE default

\* get_current_principal(request, settings): the Principal, or the HTTPException
\* it raises.
get_current_principal(request, settings) ==
    IF ~settings.auth_stub
    THEN HTTPException(HTTP_501_NOT_IMPLEMENTED,
                       "Authentication is not implemented yet.", <<>>)
    ELSE LET subject == HeaderOr(request.x_auth_subject, StubUser)
             email == request.x_auth_email
             parsed == _parse_roles_csv(HeaderOr(request.x_auth_roles, <<>>))
         IN  IF parsed.raised
             THEN HTTPException(HTTP_400_BAD_REQUEST, parsed.error.msg, parsed.error.arg)
             ELSE Principal(subject, email, parsed.roles)

(* --------------------------- core/errors.py ---------------------------- *)

\* _request_id_from_headers: x-request-id when it is set and not empty.
_request_id_from_headers(request) ==
    IF request.x_request_id.present /\ request.x_request_id.value # <<>>
    THEN request.x_request_id
    ELSE None

\* http_exception_handler: the status of the exception, the ErrorResponse
\* envelope as the JSON body, and the headers of the exception.
http_exception_handler(request, exc) ==
    [status_code |-> exc.status_code,
     body |-> [error |-> "http_error",
               message |-> exc.detail,
               details |-> [status_code |-> exc.status_code],
               request_id |-> _request_id_from_headers(request)],
     headers |-> exc.headers]

(* ------------------ a request to a guarded endpoint -------------------- *)

HTTP_200_OK == 200

\* The entries an X-Auth-Roles header is made of.
RoleHeaderTokens == {
    <<"L", "e", "a", "r", "n", "e", "r">>,
    <<" ", "a", "d", "m", "i", "n", " ">>,
    <<>>,
    <<"b", "o", "g", "u", "s">>
}

RECURSIVE JoinCsv(_)
JoinCsv(tokens) ==
    IF Len(tokens) = 0 THEN <<>>
    ELSE IF Len(tokens) = 1 THEN tokens[1]
    ELSE tokens[1] \o <<",">> \o JoinCsv(Tail(tokens))

RoleHeaders ==
    {JoinCsv(ts) : ts \in UNION {[1..n -> RoleHeaderTokens] : n \in 0..MaxTokens}}

OptionOf(S) == {None} \cup {Some(v) : v \in S}

Requests ==
    [x_auth_subject : OptionOf({<<>>, SubjectU1}),
     x_auth_email : OptionOf({<<"a", "@", "b">>}),
     x_auth_roles : OptionOf(RoleHeaders),
     authorization : OptionOf({<<"B", "e", "a", "r", "e", "r", " ", "t">>,
                               <<"B", "a", "s", "i", "c", " ", "x">>}),
     x_request_id : OptionOf({<<"r", "1">>})]

\* A request that carries no credential: no Authorization and no X-Auth-* header.
NoCredential(request) ==
    /\ ~request.authorization.present
    /\ ~request.x_auth_subject.present
    /\ ~request.x_auth_email.present
    /\ ~request.x_auth_roles.present

NoRequest ==
    [x_auth_subject |-> None, x_auth_email |-> None, x_auth_roles |-> None,
     authorization |-> None, x_request_id |-> None]

\* The role sets the guards of the endpoints hit are built from: none, one
\* role, Admin and SuperAdmin, the four writing roles, all roles.
RequiredSets == {
    {},
    {"LEARNER"},
    {"ADMIN", "SUPERADMIN"},
    {"INSTRUCTOR", "MANAGER", "ADMIN", "SUPERADMIN"},
    Role
}

InitRbac ==
    /\ environ = "unset"
    /\ settingsCache = <<>>
    /\ rq = NoRequest
    /\ rqRequired = {}
    /\ rqPc = "idle"
    /\ rqPrincipal = <<>>
    /\ rqGuardRan = FALSE
    /\ rqServiceCalled = FALSE
    /\ rqResponse = <<>>

\* The environment is set before create_app() reads the settings.
SetEnv ==
    /\ rqPc = "idle"
    /\ settingsCache = <<>>
    /\ \E v \in {"unset", "true", "false"} :
        /\ v # environ
        /\ environ' = v
    /\ UNCHANGED <<settingsCache, rq, rqRequired, rqPc, rqPrincipal, rqGuardRan,
                   rqServiceCalled, rqResponse>>
    /\ UNCHANGED exceptRbacVars

\* create_app(): get_settings() fills the cache.
CreateApp ==
    /\ rqPc = "idle"
    /\ settingsCache = <<>>
    /\ settingsCache' = <<get_settings(settingsCache, environ)>>
    /\ UNCHANGED <<environ, rq, rqRequired, rqPc, rqPrincipal, rqGuardRan,
                   rqServiceCalled, rqResponse>>
    /\ UNCHANGED exceptRbacVars

\* clear_settings_cache()
ClearSettingsCache ==
    /\ rqPc = "idle"
    /\ settingsCache # <<>>
    /\ settingsCache' = <<>>
    /\ UNCHANGED <<environ, rq, rqRequired, rqPc, rqPrincipal, rqGuardRan,
                   rqServiceCalled, rqResponse>>
    /\ UNCHANGED exceptRbacVars

\* A request arrives at an endpoint declared with Depends(require_roles(required)).
Receive ==
    /\ rqPc = "idle"
    /\ settingsCache # <<>>
    /\ \E request \in Requests, required \in RequiredSets :
        /\ rq' = request
        /\ rqRequired' = required
    /\ rqPc' = "resolve"
    /\ rqPrincipal' = <<>>
    /\ rqGuardRan' = FALSE
    /\ rqServiceCalled' = FALSE
    /\ rqResponse' = <<>>
    /\ UNCHANGED <<environ, settingsCache>>
    /\ UNCHANGED exceptRbacVars

\* Depends(get_current_user) -> Depends(get_current_principal) with
\* Depends(get_settings); an HTTPException ends the request in the handler.
ResolvePrincipal ==
    /\ rqPc = "resolve"
    /\ LET res == get_current_principal(rq, get_settings(settingsCache, environ))
       IN  IF IsHTTPException(res)
           THEN /\ rqResponse' = <<http_exception_handler(rq, res)>>
                /\ rqPc' = "responded"
                /\ UNCHANGED rqPrincipal
           ELSE /\ rqPrincipal' = <<res>>
                /\ rqPc' = "guard"
                /\ UNCHANGED rqResponse
    /\ UNCHANGED <<environ, settingsCache, rq, rqRequired, rqGuardRan, rqServiceCalled>>
    /\ UNCHANGED exceptRbacVars

\* The dependency _enforce runs on the resolved Principal.
Enforce ==
    /\ rqPc = "guard"
    /\ rqGuardRan' = TRUE
    /\ LET res == enforce(rqPrincipal[1], rqRequired)
       IN  IF IsHTTPException(res)
           THEN /\ rqResponse' = <<http_exception_handler(rq, res)>>
                /\ rqPc' = "responded"
           ELSE /\ rqPc' = "endpoint"
                /\ UNCHANGED rqResponse
    /\ UNCHANGED <<environ, settingsCache, rq, rqRequired, rqPrincipal, rqServiceCalled>>
    /\ UNCHANGED exceptRbacVars

\* All dependencies resolved: the endpoint body calls its service and returns.
Endpoint ==
    /\ rqPc = "endpoint"
    /\ rqServiceCalled' = TRUE
    /\ rqResponse' = <<[status_code |-> HTTP_200_OK, body |-> [result |-> "service"],
                        headers |-> NoHeaders]>>
    /\ rqPc' = "responded"
    /\ UNCHANGED <<environ, settingsCache, rq, rqRequired, rqPrincipal, rqGuardRan>>
    /\ UNCHANGED exceptRbacVars

\* The response is sent; the next request may arrive.
Respond ==
    /\ rqPc = "responded"
    /\ rq' = NoRequest
    /\ rqRequired' = {}
    /\ rqPc' = "idle"
    /\ rqPrincipal' = <<>>
    /\ rqGuardRan' = FALSE
    /\ rqServiceCalled' = FALSE
    /\ rqResponse' = <<>>
    /\ UNCHANGED <<environ, settingsCache>>
    /\ UNCHANGED exceptRbacVars

(* ------------------------- schemas/security.py ------------------------- *)

\* The exception a call raised when it is not an HTTPException.
Raised(cls) == [raised |-> cls]

IsRaised(x) == "raised" \in DOMAIN x

\* Principal(subject=..., email=..., roles=...) as pydantic validates it:
\* `subject: str = Field(...)` is required and has no length constraint, so
\* only a missing (or None) subject is a ValidationError.
PrincipalModel(subject, email, roles) ==
    IF ~subject.present
    THEN Raised("ValidationError")
    ELSE Principal(subject.value, email, roles)

(* ------------------ core/security/jwt.py: claims mapping ---------------- *)

HTTP_401_UNAUTHORIZED == 401

BearerChallenge == {<<"WWW-Authenticate", "Bearer">>}

\* A claim of the token: absent (claims.get gives None), a string, or a list
\* of strings.
NoClaim == [kind |-> "absent", str |-> <<>>, list |-> <<>>]
StrClaim(s) == [kind |-> "str", str |-> s, list |-> <<>>]
ListClaim(l) == [kind |-> "list", str |-> <<>>, list |-> l]

\* bool(value) of a claim: None, "" and [] are false.
Truthy(c) ==
    \/ c.kind = "str" /\ c.str # <<>>
    \/ c.kind = "list" /\ c.list # <<>>

\* a or b or c
FirstTruthy(cs) ==
    IF \E i \in 1..Len(cs) : Truthy(cs[i])
    THEN cs[SetMin({i \in 1..Len(cs) : Truthy(cs[i])})]
    ELSE cs[Len(cs)]

\* str.split(): the pieces between runs of whitespace, none of them empty.
RECURSIVE split_ws(_)
split_ws(str) ==
    LET starts == {i \in 1..Len(str) : ~IsSpace(str[i])}
    IN  IF starts = {} THEN <<>>
        ELSE LET b == SetMin(starts)
                 ends == {i \in b..Len(str) : IsSpace(str[i])}
                 e == IF ends = {} THEN Len(str) + 1 ELSE SetMin(ends)
             IN  <<SubSeq(str, b, e - 1)>> \o split_ws(SubSeq(str, e, Len(str)))

\* _extract_bearer_token(auth_header): the token of a header made of the
\* scheme "bearer" in any letter case and one more word, else None.
_extract_bearer_token(auth_header) ==
    IF ~auth_header.present \/ auth_header.value = <<>>
    THEN None
    ELSE LET parts == split_ws(auth_header.value)
         IN  IF Len(parts) # 2 THEN None
             ELSE IF lower(strip(parts[1])) # <<"b", "e", "a", "r", "e", "r">> THEN None
             ELSE IF strip(parts[2]) = <<>> THEN None
             ELSE Some(strip(parts[2]))

\* sep in str
Contains(str, sep) == \E i \in 1..Len(str) : str[i] = sep

\* _consume(value): the from_str results of the candidates of one direct
\* claim, in order; a ValueError among them is raised by the call.
_consume(value) ==
    IF value.kind = "str"
    THEN LET candidates ==
                 IF Contains(value.str, ",")
                 THEN LET pieces == split(value.str, ",")
                          parts == [i \in 1..Len(pieces) |-> strip(pieces[i])]
                      IN  SelectSeq(parts, LAMBDA q : q # <<>>)
                 ELSE IF strip(value.str) # <<>> THEN <<strip(value.str)>> ELSE <<>>
         IN  [i \in 1..Len(candidates) |-> from_str(candidates[i])]
    ELSE IF value.kind = "list"
    THEN LET items == [i \in 1..Len(value.list) |-> strip(value.list[i])]
             kept == SelectSeq(items, LAMBDA q : q # <<>>)
         IN  [i \in 1..Len(kept) |-> from_str(kept[i])]
    ELSE <<>>

\* The scope loop: the role of every part "role:<v>" / "roles:<v>" whose <v>
\* from_str accepts; every other part is passed over.
scope_roles(scope_val) ==
    IF scope_val.kind = "str" /\ strip(scope_val.str) # <<>>
    THEN LET parts == split_ws(scope_val.str)
             keyed == SelectSeq(parts, LAMBDA q : Contains(q, ":"))
             k(q) == SubSeq(q, 1, SetMin({i \in 1..Len(q) : q[i] = ":"}) - 1)
             v(q) == SubSeq(q, SetMin({i \in 1..Len(q) : q[i] = ":"}) + 1, Len(q))
             named == SelectSeq(keyed, LAMBDA q :
                          /\ lower(k(q)) \in {<<"r", "o", "l", "e">>,
                                              <<"r", "o", "l", "e", "s">>}
                          /\ strip(v(q)) # <<>>)
             found == [i \in 1..Len(named) |-> from_str(strip(v(named[i])))]
         IN  SelectSeq(found, LAMBDA r : r # ValueError)
    ELSE <<>>

\* The closing loop: every role once, at its first position (r.value is
\* distinct for distinct members).
RECURSIVE dedupe(_, _)
dedupe(roles, seen) ==
    IF roles = <<>> THEN <<>>
    ELSE IF RoleValue(roles[1]) \in seen THEN dedupe(Tail(roles), seen)
    ELSE <<roles[1]>> \o dedupe(Tail(roles), seen \cup {RoleValue(roles[1])})

roles_from_claims_lenient(claims) ==
    LET direct == _consume(claims.roles) \o _consume(claims.role)
                      \o _consume(claims.groups)
        kept == SelectSeq(direct, LAMBDA r : r # ValueError)
    IN  [raised |-> FALSE,
         roles |-> dedupe(kept \o scope_roles(FirstTruthy(<<claims.scope, claims.scp>>)), {})]

roles_from_claims_last_wins(claims) ==
    LET direct == _consume(claims.roles) \o _consume(claims.role)
                      \o _consume(claims.groups)
        all == direct \o scope_roles(FirstTruthy(<<claims.scope, claims.scp>>))
        rev(q) == [i \in 1..Len(q) |-> q[Len(q) + 1 - i]]
    IN  IF \E i \in 1..Len(direct) : direct[i] = ValueError
        THEN [raised |-> TRUE, roles |-> <<>>]
        ELSE [raised |-> FALSE, roles |-> rev(dedupe(rev(all), {}))]

\* _roles_from_claims(claims): roles, role and groups are consumed in that
\* order (from_str's ValueError is raised), then the scope-like claim, then
\* the list is deduplicated.
_roles_from_claims(claims) ==
    LET direct == _consume(claims.roles) \o _consume(claims.role)
                      \o _consume(claims.groups)
        scope_val == FirstTruthy(<<claims.scope, claims.scp>>)
    IN  IF \E i \in 1..Len(direct) : direct[i] = ValueError
        THEN [raised |-> TRUE, roles |-> <<>>]
        ELSE [raised |-> FALSE, roles |-> dedupe(direct \o scope_roles(scope_val), {})]

\* str(x).strip() of a claim that is a string (or of the "" that ends an `or`
\* chain).
ClaimText(c) == IF c.kind = "str" THEN strip(c.str) ELSE <<>>

\* _principal_from_claims(claims): the Principal, the 401 it raises when the
\* subject is empty, or the ValueError of _roles_from_claims.
_principal_from_claims(claims) ==
    LET subject == ClaimText(FirstTruthy(<<claims.sub, claims.oid, claims.user_id,
                                            StrClaim(<<>>)>>))
        email == FirstTruthy(<<claims.email, claims.preferred_username, claims.upn>>)
        email_str == IF ClaimText(email) # <<>> THEN Some(ClaimText(email)) ELSE None
        roles == _roles_from_claims(claims)
    IN  IF subject = <<>>
        THEN HTTPExceptionWith(HTTP_401_UNAUTHORIZED,
                 "Token missing required subject claim (sub).", <<>>, BearerChallenge)
        ELSE IF roles.raised THEN Raised(ValueError)
        ELSE PrincipalModel(Some(subject), email_str, roles.roles)

(* -------------------- calls of the claims mapping ---------------------- *)

\* The claims of the tokens the mapping is called with.
SubClaims == {NoClaim, StrClaim(<<>>), StrClaim(<<" ">>), StrClaim(<<"s", "1">>)}
OidClaims == {NoClaim, StrClaim(<<"o", "1">>)}
UserIdClaims == {NoClaim, StrClaim(<<"x", "1">>)}
EmailClaims == {StrClaim(<<"a", "@", "b">>)}
RolesClaims == {
    NoClaim,
    StrClaim(<<"L", "e", "a", "r", "n", "e", "r", ",", "A", "d", "m", "i", "n">>),
    StrClaim(<<"A", "d", "m", "i", "n", ",", "b", "o", "g", "u", "s">>),
    ListClaim(<<<<"a", "d", "m", "i", "n">>, <<" ">>, <<"L", "e", "a", "r", "n", "e", "r">>>>)
}
RoleClaims == {NoClaim, StrClaim(<<"A", "d", "m", "i", "n">>), StrClaim(<<"n", "o", "p", "e">>)}
GroupsClaims == {
    NoClaim,
    ListClaim(<<<<"M", "a", "n", "a", "g", "e", "r">>,
                <<"A", "d", "m", "i", "n">>>>),
    StrClaim(<<"L", "e", "a", "r", "n", "e", "r">>)
}
ScopeClaims == {
    NoClaim,
    StrClaim(<<>>),
    StrClaim(<<"o", "p", "e", "n", "i", "d", " ", "r", "o", "l", "e", ":", "I",
               "n", "s", "t", "r", "u", "c", "t", "o", "r", " ", "r", "o", "l",
               "e", "s", ":", "b", "o", "g", "u", "s", " ", "R", "O", "L", "E",
               "S", ":", "a", "d", "m", "i", "n", " ", "r", "o", "l", "e", ":">>)
}
ScpClaims == {
    NoClaim,
    StrClaim(<<"r", "o", "l", "e", ":", "E", "m", "p", "l", "o", "y", "e", "e",
               " ", "x", ":", "A", "d", "m", "i", "n">>)
}

ClaimsInputs ==
    [sub : SubClaims, oid : OidClaims, user_id : UserIdClaims,
     email : EmailClaims, preferred_username : {NoClaim}, upn : {NoClaim},
     roles : RolesClaims, role : RoleClaims, groups : GroupsClaims,
     scope : ScopeClaims, scp : ScpClaims]

NoClaims ==
    [sub |-> NoClaim, oid |-> NoClaim, user_id |-> NoClaim,
     email |-> NoClaim, preferred_username |-> NoClaim, upn |-> NoClaim,
     roles |-> NoClaim, role |-> NoClaim, groups |-> NoClaim,
     scope |-> NoClaim, scp |-> NoClaim]

NotCalled == [called |-> FALSE]

InitClaims ==
    /\ pcSubject = None
    /\ pcRet = NotCalled
    /\ cmClaims = NoClaims
    /\ cmRet = NotCalled
    /\ cmPc = "idle"

\* Principal(subject=...) built directly, with or without a subject.
PrincipalNew ==
    /\ cmPc = "idle"
    /\ \E subject \in {None, Some(<<>>), Some(SubjectU1)} :
        /\ pcSubject' = subject
        /\ pcRet' = PrincipalModel(subject, None, <<>>)
    /\ cmPc' = "returned"
    /\ UNCHANGED <<cmClaims, cmRet>>
    /\ UNCHANGED exceptClaimsVars

\* One call of _principal_from_claims on the claims of a verified token.
ClaimsCall ==
    /\ cmPc = "idle"
    /\ \E claims \in ClaimsInputs :
        /\ cmClaims' = claims
        /\ cmRet' = _principal_from_claims(claims)
    /\ cmPc' = "returned"
    /\ UNCHANGED <<pcSubject, pcRet>>
    /\ UNCHANGED exceptClaimsVars

\* The caller is ready for the next call.
ClaimsNext ==
    /\ cmPc = "returned"
    /\ pcSubject' = None
    /\ pcRet' = NotCalled
    /\ cmClaims' = NoClaims
    /\ cmRet' = NotCalled
    /\ cmPc' = "idle"
    /\ UNCHANGED exceptClaimsVars

(* ------------- core/security/jwt.py: verify_access_token --------------- *)

HTTP_500_INTERNAL_SERVER_ERROR == 500

\* (settings.<name> or "").strip()
Stripped(opt) == IF opt.present THEN strip(opt.value) ELSE <<>>

resolve_jwks_config_issuer_only(settings) ==
    IF Stripped(settings.oidc_issuer) = <<>>
    THEN HTTPException(HTTP_500_INTERNAL_SERVER_ERROR,
                       "OIDC_ISSUER is required when AUTH_STUB=false.", <<>>)
    ELSE IF ~settings.has_oidc_algorithms
    THEN Raised("AttributeError")
    ELSE [issuer |-> Stripped(settings.oidc_issuer),
          audience |-> IF Stripped(settings.oidc_audience) # <<>>
                       THEN Some(Stripped(settings.oidc_audience)) ELSE None,
          jwks_uri |-> Stripped(settings.oidc_jwks_uri)]

\* _resolve_jwks_config(settings): the JWKSConfig, the 500 raised for a blank
\* issuer or JWKS URI, or the AttributeError of reading oidc_algorithms from
\* a settings object that has no such attribute (app.core.config.Settings
\* defines none). The algorithms only reach the decoder and are left out.
_resolve_jwks_config(settings) ==
    LET issuer == Stripped(settings.oidc_issuer)
        jwks_uri == Stripped(settings.oidc_jwks_uri)
        audience == Stripped(settings.oidc_audience)
    IN  IF issuer = <<>>
        THEN HTTPException(HTTP_500_INTERNAL_SERVER_ERROR,
                           "OIDC_ISSUER is required when AUTH_STUB=false.", <<>>)
        ELSE IF jwks_uri = <<>>
        THEN HTTPException(HTTP_500_INTERNAL_SERVER_ERROR,
                           "OIDC_JWKS_URI is required when AUTH_STUB=false.", <<>>)
        ELSE IF ~settings.has_oidc_algorithms
        THEN Raised("AttributeError")
        ELSE [issuer |-> issuer,
              audience |-> IF audience # <<>> THEN Some(audience) ELSE None,
              jwks_uri |-> jwks_uri]

\* A get that constructs a client on every call.
_JWKSCache_get_always_new(by_uri, made, jwks_uri) ==
    [by_uri |-> {e \in by_uri : e.uri # jwks_uri}
                    \cup {[uri |-> jwks_uri, client |-> made + 1]},
     made |-> made + 1,
     client |-> made + 1]

\* _JWKSCache.get(jwks_uri): the cached client of the URI; a URI that is not
\* cached gets a newly constructed PyJWKClient first. Clients are numbered in
\* the order of their construction.
_JWKSCache_get(by_uri, made, jwks_uri) ==
    IF \E e \in by_uri : e.uri = jwks_uri
    THEN [by_uri |-> by_uri, made |-> made,
          client |-> (CHOOSE e \in by_uri : e.uri = jwks_uri).client]
    ELSE [by_uri |-> by_uri \cup {[uri |-> jwks_uri, client |-> made + 1]},
          made |-> made + 1,
          client |-> made + 1]

\* The PyJWT exceptions that are jwt.InvalidTokenError; PyJWKClientError (no
\* key for the token's kid, or the JWKS cannot be fetched) is not one.
InvalidTokenErrors == {
    "DecodeError", "InvalidSignatureError", "ExpiredSignatureError",
    "ImmatureSignatureError", "InvalidIssuerError", "InvalidAudienceError"
}

\* str(exc) of the PyJWT exceptions: one text per check that failed.
ExcText(cls) ==
    CASE cls = "DecodeError" -> <<"Not enough segments">>
      [] cls = "InvalidSignatureError" -> <<"Signature verification failed">>
      [] cls = "ExpiredSignatureError" -> <<"Signature has expired">>
      [] cls = "ImmatureSignatureError" -> <<"The token is not yet valid (nbf)">>
      [] cls = "InvalidIssuerError" -> <<"Invalid issuer">>
      [] cls = "InvalidAudienceError" -> <<"Audience doesn't match">>
      [] OTHER -> <<cls>>

\* What get_signing_key_from_jwt and jwt.decode raise for a token: the
\* exception of the first check the token fails ("none" when it passes all);
\* the audience is checked only when one is configured.
Raises(token, cfg) ==
    IF token.fails = "InvalidAudienceError" /\ ~cfg.audience.present
    THEN "none"
    ELSE token.fails

Unauthorized(msg, arg) ==
    HTTPExceptionWith(HTTP_401_UNAUTHORIZED, msg, arg, BearerChallenge)

\* No client: the call did not get to _JWKS_CACHE.get. Clients are numbered
\* from 1.
NoClient == 0

\* verify_access_token(token, settings=settings): what the call gives and the
\* cache after it. The configuration is resolved before the try block; inside
\* it the client is taken from the cache, the token is decoded (jwt.decode
\* gives a dict or raises) and the claims are mapped; an HTTPException is
\* re-raised and every other exception becomes a 401.
verify_access_token(token, settings, by_uri, made) ==
    LET cfg == _resolve_jwks_config(settings)
    IN  IF IsHTTPException(cfg) \/ IsRaised(cfg)
        THEN [ret |-> cfg, by_uri |-> by_uri, made |-> made, client |-> NoClient]
        ELSE LET got == _JWKSCache_get(by_uri, made, cfg.jwks_uri)
                 exc == Raises(token, cfg)
                 mapped == _principal_from_claims(token.claims)
                 ret == IF exc = "ExpiredSignatureError"
                        THEN Unauthorized("Token expired.", <<>>)
                        ELSE IF exc \in InvalidTokenErrors
                        THEN Unauthorized("Invalid token: ", ExcText(exc))
                        ELSE IF exc # "none"
                        THEN Unauthorized("Invalid token.", <<>>)
                        ELSE IF IsRaised(mapped)
                        THEN Unauthorized("Invalid token.", <<>>)
                        ELSE mapped
             IN  [ret |-> ret, by_uri |-> got.by_uri, made |-> got.made,
                  client |-> got.client]

(* ------------------- calls of verify_access_token ---------------------- *)

\* The settings objects the verifier is called with: issuer and JWKS URI
\* unset, blank or set, an audience or none, and with or without an
\* oidc_algorithms attribute.
VerifySettings ==
    [oidc_issuer : {None, Some(<<>>), Some(<<" ">>), Some(<<"i">>)},
     oidc_jwks_uri : {None, Some(<<" ">>), Some(<<"u">>), Some(<<"v">>)},
     oidc_audience : {None, Some(<<"a">>)},
     has_oidc_algorithms : BOOLEAN]

NoSettings ==
    [oidc_issuer |-> None, oidc_jwks_uri |-> None, oidc_audience |-> None,
     has_oidc_algorithms |-> FALSE]

\* The claims of the tokens that pass every check: a subject with two roles,
\* no subject at all, a subject with a role name that names no role.
VerifiedClaims == {
    [NoClaims EXCEPT !.sub = StrClaim(<<"s", "1">>),
                     !.roles = StrClaim(<<"L", "e", "a", "r", "n", "e", "r", ",", "A", "d", "m", "i", "n">>)],
    [NoClaims EXCEPT !.roles = StrClaim(<<"L", "e", "a", "r", "n", "e", "r", ",", "A", "d", "m", "i", "n">>)],
    [NoClaims EXCEPT !.sub = StrClaim(<<"s", "1">>),
                     !.roles = StrClaim(<<"A", "d", "m", "i", "n", ",", "b", "o", "g", "u", "s">>)]
}

\* The tokens: those that fail a check, and those that pass them all.
Tokens ==
    {[fails |-> cls, claims |-> NoClaims] :
        cls \in InvalidTokenErrors \cup {"PyJWKClientError"}}
    \cup {[fails |-> "none", claims |-> c] : c \in VerifiedClaims}

NoToken == [fails |-> "none", claims |-> NoClaims]

InitVerify ==
    /\ jwksByUri = {}
    /\ jwksMade = 0
    /\ vSettings = NoSettings
    /\ vToken = NoToken
    /\ vRet = NotCalled
    /\ vPc = "idle"
    /\ vClient = NoClient

\* One call of verify_access_token.
VerifyCall ==
    /\ vPc = "idle"
    /\ \E token \in Tokens, settings \in VerifySettings :
        \E res \in {verify_access_token(token, settings, jwksByUri, jwksMade)} :
            /\ res.made <= MaxClients
            /\ vToken' = token
            /\ vSettings' = settings
            /\ vRet' = res.ret
            /\ jwksByUri' = res.by_uri
            /\ jwksMade' = res.made
            /\ vClient' = res.client
    /\ vPc' = "returned"
    /\ UNCHANGED exceptVerifyVars

\* The caller is ready for the next call.
VerifyNext ==
    /\ vPc = "returned"
    /\ vSettings' = NoSettings
    /\ vToken' = NoToken
    /\ vRet' = NotCalled
    /\ vPc' = "idle"
    /\ vClient' = NoClient
    /\ UNCHANGED <<jwksByUri, jwksMade>>
    /\ UNCHANGED exceptVerifyVars

\* clear_jwks_cache()
ClearJwksCache ==
    /\ vPc = "idle"
    /\ jwksByUri # {}
    /\ jwksByUri' = {}
    /\ UNCHANGED <<jwksMade, vSettings, vToken, vRet, vPc, vClient>>
    /\ UNCHANGED exceptVerifyVars

(* ------------------------- core/mongo_utils.py ------------------------- *)

HTTP_404_NOT_FOUND == 404
HTTP_409_CONFLICT == 409

\* An id string of a request: either the text of an ObjectId or a string that
\* ObjectId() rejects (the empty string included).
IdOf(oid) == [valid |-> TRUE, oid |-> oid]

BadId == [valid |-> FALSE, oid |-> 0]

\* None where the value, when there is one, is a number (an ObjectId, a
\* datetime, an int) or a tag.
NoNumber == [present |-> FALSE, value |-> 0]

NoTag == [present |-> FALSE, value |-> ""]

\* to_object_id(value): the ObjectId, or None if the string is empty or invalid.
to_object_id(value) == IF value.valid THEN Some(value.oid) ELSE NoNumber

\* not_deleted_filter() is {"deleted_at": None}: the documents it matches.
not_deleted_filter(doc) == doc.deleted_at = NoNumber

\* soft_delete_update(now) is {"$set": {"deleted_at": now, "updated_at": now}}.
soft_delete_update(doc, now) ==
    [doc EXCEPT !.deleted_at = Some(now), !.updated_at = now]

\* serialize_mongo_doc(doc) followed by <Entity>Read.model_validate: _id
\* becomes the string id, and a field the read model does not declare
\* (seed_tag) is dropped.
_doc_to_read(doc) ==
    [id |-> IdOf(doc._id), fields |-> doc.fields, created_at |-> doc.created_at,
     updated_at |-> doc.updated_at, deleted_at |-> doc.deleted_at]

(* --------------------------- services/*.py ----------------------------- *)

\* collection_name of UsersService, ContentService and AssessmentsService.
Kinds == {"users", "content", "assessments"}

\* The fields a create or update payload carries for each collection.
FieldsOf(kind) ==
    IF kind = "users" THEN {"name", "email"}
    ELSE IF kind = "content" THEN {"title", "slug"}
    ELSE {"title", "course_id", "module_id"}

\* The detail of the 404 of each service.
NotFoundText(kind) ==
    IF kind = "users" THEN "User not found."
    ELSE IF kind = "content" THEN "Content not found."
    ELSE "Assessment not found."

NotFound(kind) == HTTPException(HTTP_404_NOT_FOUND, NotFoundText(kind), <<>>)

Conflict == HTTPException(HTTP_409_CONFLICT, "A user with this email already exists.", <<>>)

\* A unique index that leaves soft-deleted documents out.
DuplicateKey_live_only(kind, coll, oid, fields) ==
    /\ kind = "users"
    /\ \E d \in coll : /\ d._id # oid
                       /\ d.deleted_at = NoNumber
                       /\ d.fields["email"] = fields["email"]

\* Only users has an index created with unique=True (uniq_email on email); it
\* covers every document of the collection, soft-deleted ones included.
\* Whether writing `fields` to the document `oid` raises DuplicateKeyError.
DuplicateKey(kind, coll, oid, fields) ==
    /\ kind = "users"
    /\ \E d \in coll : d._id # oid /\ d.fields["email"] = fields["email"]

\* The value a payload field is stored as: the e-mail of a user is lower-cased
\* (str(payload.email).lower()), every other field is stored as given.
Stored(kind, f, v) ==
    IF kind = "users" /\ f = "email" /\ v.present THEN Some(lower(v.value)) ELSE v

\* <Service>.create_<entity>(payload) at time `now`, with `oid` the ObjectId
\* insert_one generates: the result and the collection afterwards.
create_entity(kind, payload, coll, now, oid) ==
    LET doc == [_id |-> oid,
                fields |-> [f \in FieldsOf(kind) |-> Stored(kind, f, payload[f])],
                created_at |-> now, updated_at |-> now, deleted_at |-> NoNumber,
                seed_tag |-> NoTag]
    IN  IF DuplicateKey(kind, coll, oid, doc.fields)
        THEN [ret |-> Conflict, coll |-> coll]
        ELSE [ret |-> _doc_to_read(doc), coll |-> coll \cup {doc}]

\* find_one({"_id": oid, **not_deleted_filter()}) and find_one({"_id": oid}):
\* the set of documents found (empty for None).
find_not_deleted(coll, oid) ==
    {d \in coll : oid.present /\ d._id = oid.value /\ not_deleted_filter(d)}

find_by_id(coll, oid) == {d \in coll : d._id = oid}

\* A get that does not filter on deleted_at.
get_entity_deleted_too(kind, id, coll) ==
    LET oid == to_object_id(id)
        found == IF oid.present THEN find_by_id(coll, oid.value) ELSE {}
    IN  IF found = {} THEN NotFound(kind)
        ELSE _doc_to_read(CHOOSE d \in found : TRUE)

\* <Service>.get_<entity>(id)
get_entity(kind, id, coll) ==
    LET found == find_not_deleted(coll, to_object_id(id))
    IN  IF found = {} THEN NotFound(kind)
        ELSE _doc_to_read(CHOOSE d \in found : TRUE)

\* find(query).sort("created_at", ASCENDING): the documents as a sequence.
RECURSIVE sort_created_at(_)
sort_created_at(ds) ==
    IF ds = {} THEN <<>>
    ELSE LET first == CHOOSE d \in ds :
                        \A e \in ds : d.created_at < e.created_at
                                      \/ (d.created_at = e.created_at /\ d._id <= e._id)
         IN  <<first>> \o sort_created_at(ds \ {first})

Max(a, b) == IF a >= b THEN a ELSE b

Min(a, b) == IF a <= b THEN a ELSE b

DefaultSkip == 0
DefaultLimit == 50
LimitCap == 200

\* A list whose total is the size of the page it returns.
list_entities_counts_page(kind, skipArg, limitArg, coll) ==
    LET limit == Max(1, Min(IF limitArg.present THEN limitArg.value ELSE DefaultLimit,
                            LimitCap))
        skip == Max(0, IF skipArg.present THEN skipArg.value ELSE DefaultSkip)
        sorted == sort_created_at({d \in coll : not_deleted_filter(d)})
        page == SubSeq(sorted, skip + 1, Min(Len(sorted), skip + limit))
    IN  [items |-> [i \in 1..Len(page) |-> _doc_to_read(page[i])],
         total |-> Len(page), skip |-> skip, limit |-> limit]

\* <Service>.list_<entities>(skip, limit): an argument left out takes its
\* default; both are clamped before the query and echoed after it.
list_entities(kind, skipArg, limitArg, coll) ==
    LET limit == Max(1, Min(IF limitArg.present THEN limitArg.value ELSE DefaultLimit,
                            LimitCap))
        skip == Max(0, IF skipArg.present THEN skipArg.value ELSE DefaultSkip)
        query == {d \in coll : not_deleted_filter(d)}
        sorted == sort_created_at(query)
        page == SubSeq(sorted, skip + 1, Min(Len(sorted), skip + limit))
    IN  [items |-> [i \in 1..Len(page) |-> _doc_to_read(page[i])],
         total |-> Cardinality(query), skip |-> skip, limit |-> limit]

\* The `updates` dict of update_<entity>: the fields the payload provides.
Provided(kind, payload) == {f \in FieldsOf(kind) : payload[f].present}

\* An update_one that replaces the fields of the document by the payload, so
\* that a field the payload leaves out is lost.
update_write_replaces(kind, oid, payload, coll, now) ==
    LET found == find_not_deleted(coll, Some(oid))
    IN  IF found = {} THEN [matched_count |-> 0, coll |-> coll]
        ELSE LET doc == CHOOSE d \in found : TRUE
                 fields == [f \in FieldsOf(kind) |-> Stored(kind, f, payload[f])]
                 new == [doc EXCEPT !.fields = fields, !.updated_at = now]
             IN  [matched_count |-> 1, coll |-> (coll \ {doc}) \cup {new}]

\* update_one({"_id": oid, **not_deleted_filter()}, {"$set": updates}) with
\* updated_at among the updates: DuplicateKeyError, or matched_count and the
\* collection afterwards.
update_write(kind, oid, payload, coll, now) ==
    LET found == find_not_deleted(coll, Some(oid))
    IN  IF found = {} THEN [matched_count |-> 0, coll |-> coll]
        ELSE LET doc == CHOOSE d \in found : TRUE
                 fields == [f \in FieldsOf(kind) |->
                                IF payload[f].present
                                THEN Stored(kind, f, payload[f])
                                ELSE doc.fields[f]]
                 new == [doc EXCEPT !.fields = fields, !.updated_at = now]
             IN  IF DuplicateKey(kind, coll, oid, fields)
                 THEN Raised("DuplicateKeyError")
                 ELSE [matched_count |-> 1, coll |-> (coll \ {doc}) \cup {new}]

\* doc = await coll.find_one({"_id": oid}); assert doc is not None;
\* return self._doc_to_read(doc)
update_read(coll, oid) ==
    LET found == find_by_id(coll, oid)
    IN  IF found = {} THEN Raised("AssertionError")
        ELSE _doc_to_read(CHOOSE d \in found : TRUE)

\* An update without the early return for an empty `updates`.
update_entity_always_writes(kind, id, payload, coll, now) ==
    LET oid == to_object_id(id)
    IN  IF ~oid.present THEN [ret |-> NotFound(kind), coll |-> coll, read_clock |-> FALSE]
        ELSE LET res == update_write(kind, oid.value, payload, coll, now)
             IN  IF IsRaised(res)
                 THEN [ret |-> Conflict, coll |-> coll, read_clock |-> TRUE]
                 ELSE IF res.matched_count = 0
                 THEN [ret |-> NotFound(kind), coll |-> coll, read_clock |-> TRUE]
                 ELSE [ret |-> update_read(res.coll, oid.value), coll |-> res.coll,
                       read_clock |-> TRUE]

\* <Service>.update_<entity>(id, payload) run without interruption.
update_entity(kind, id, payload, coll, now) ==
    LET oid == to_object_id(id)
    IN  IF ~oid.present THEN [ret |-> NotFound(kind), coll |-> coll, read_clock |-> FALSE]
        ELSE IF Provided(kind, payload) = {}
        THEN [ret |-> get_entity(kind, id, coll), coll |-> coll, read_clock |-> FALSE]
        ELSE LET res == update_write(kind, oid.value, payload, coll, now)
             IN  IF IsRaised(res)
                 THEN [ret |-> Conflict, coll |-> coll, read_clock |-> TRUE]
                 ELSE IF res.matched_count = 0
                 THEN [ret |-> NotFound(kind), coll |-> coll, read_clock |-> TRUE]
                 ELSE [ret |-> update_read(res.coll, oid.value), coll |-> res.coll,
                       read_clock |-> TRUE]

\* A delete that matches on _id alone, so that it succeeds again on a
\* document already deleted.
delete_entity_again(kind, id, coll, now) ==
    LET oid == to_object_id(id)
        found == IF oid.present THEN find_by_id(coll, oid.value) ELSE {}
    IN  IF found = {} THEN [ret |-> NotFound(kind), coll |-> coll, read_clock |-> oid.present]
        ELSE LET doc == CHOOSE d \in found : TRUE
             IN  [ret |-> [deleted |-> TRUE, id |-> id],
                  coll |-> (coll \ {doc}) \cup {soft_delete_update(doc, now)},
                  read_clock |-> TRUE]

\* <Service>.delete_<entity>(id)
delete_entity(kind, id, coll, now) ==
    LET oid == to_object_id(id)
        found == find_not_deleted(coll, oid)
    IN  IF ~oid.present THEN [ret |-> NotFound(kind), coll |-> coll, read_clock |-> FALSE]
        ELSE IF found = {}
        THEN [ret |-> NotFound(kind), coll |-> coll, read_clock |-> TRUE]
        ELSE LET doc == CHOOSE d \in found : TRUE
             IN  [ret |-> [deleted |-> TRUE, id |-> id],
                  coll |-> (coll \ {doc}) \cup {soft_delete_update(doc, now)},
                  read_clock |-> TRUE]

(* ----------------------- calls of the services ------------------------ *)

\* Strings the payloads carry.
AliceEmail == <<"a", "l", "i", "c", "e", "@", "e", "x", "a", "m", "p", "l", "e", ".", "c", "o", "m">>
AliceEmailMixed == <<"A", "l", "i", "c", "e", "@", "e", "x", "a", "m", "p", "l", "e", ".", "c", "o", "m">>
ZedEmail == <<"z", "e", "d", "@", "e", "x", "a", "m", "p", "l", "e", ".", "c", "o", "m">>
LmsBasicsSlug == <<"l", "m", "s", "-", "b", "a", "s", "i", "c", "s">>
NotesSlug == <<"n", "o", "t", "e", "s">>

\* The payloads create_<entity> is called with: every required field present.
CreatePayloads(kind) ==
    IF kind = "users"
    THEN {[name |-> Some(<<"A", "l">>), email |-> Some(e)] :
            e \in {AliceEmail, AliceEmailMixed, ZedEmail}}
    ELSE IF kind = "content"
    THEN {[title |-> Some(<<"N">>), slug |-> Some(s)] : s \in {LmsBasicsSlug, NotesSlug}}
    ELSE {[title |-> Some(<<"E">>), course_id |-> c, module_id |-> None] :
            c \in {None, Some(LmsBasicsSlug)}}

\* The payloads update_<entity> is called with: each field provided or not.
UpdatePayloads(kind) ==
    IF kind = "users"
    THEN [name : {None, Some(<<"B", "o">>)},
          email : {None, Some(AliceEmailMixed), Some(ZedEmail)}]
    ELSE IF kind = "content"
    THEN [title : {None, Some(<<"D">>)}, slug : {None, Some(NotesSlug)}]
    ELSE [title : {None, Some(<<"Q">>)}, course_id : {None, Some(NotesSlug)},
          module_id : {None}]
         \cup {[title |-> None, course_id |-> None, module_id |-> Some(<<"m">>)]}

NoPayload(kind) == [f \in FieldsOf(kind) |-> None]

\* The id strings of the calls: the ids insert_one can have generated, and a
\* string that is no ObjectId.
IdStrings == {IdOf(i) : i \in 1..MaxDocs} \cup {BadId}

\* The skip and limit arguments of list calls, None when left out.
SkipArgs == {NoNumber, Some(0), Some(1)}
LimitArgs == {NoNumber, Some(1), Some(LimitCap)}

NoCall == [op |-> "none", kind |-> "users", id |-> BadId, payload |-> NoPayload("users"),
           skip |-> NoNumber, limit |-> NoNumber]

Call(op, kind) == [NoCall EXCEPT !.op = op, !.kind = kind, !.payload = NoPayload(kind)]

NoPending == [active |-> FALSE, call |-> NoCall]

\* The collections are independent of each other (a service reads and writes
\* its own collection only), so the calls of one run go to one service: a call
\* to a service is made while the collections of the other two are empty.
OthersEmpty(kind) == \A k \in Kinds \ {kind} : db[k] = {}

InitStore ==
    /\ db = [k \in Kinds |-> {}]
    /\ clock = 0
    /\ madeIds = 0
    /\ viaService = {}
    /\ pending = NoPending
    /\ sCall = NoCall
    /\ sRet = NotCalled

\* One call of create_<entity>.
ServiceCreate ==
    /\ clock < MaxClock
    /\ madeIds < MaxDocs
    /\ \E kind \in {k \in Kinds : OthersEmpty(k)} :
        \E payload \in CreatePayloads(kind) :
            \E res \in {create_entity(kind, payload, db[kind], clock + 1, madeIds + 1)} :
                /\ sCall' = [Call("create", kind) EXCEPT !.payload = payload]
                /\ sRet' = res.ret
                /\ db' = [db EXCEPT ![kind] = res.coll]
                /\ madeIds' = IF IsHTTPException(res.ret) THEN madeIds ELSE madeIds + 1
                /\ viaService' = IF IsHTTPException(res.ret) THEN viaService
                                 ELSE viaService \cup {madeIds + 1}
    /\ clock' = clock + 1
    /\ UNCHANGED pending
    /\ UNCHANGED exceptStoreVars

\* One call of get_<entity>.
ServiceGet ==
    /\ \E kind \in {k \in Kinds : OthersEmpty(k)}, id \in IdStrings :
        /\ sCall' = [Call("get", kind) EXCEPT !.id = id]
        /\ sRet' = get_entity(kind, id, db[kind])
    /\ UNCHANGED <<db, clock, madeIds, viaService, pending>>
    /\ UNCHANGED exceptStoreVars

\* One call of list_<entities>.
ServiceList ==
    /\ \E kind \in {k \in Kinds : OthersEmpty(k)}, skip \in SkipArgs, limit \in LimitArgs :
        /\ sCall' = [Call("list", kind) EXCEPT !.skip = skip, !.limit = limit]
        /\ sRet' = list_entities(kind, skip, limit, db[kind])
    /\ UNCHANGED <<db, clock, madeIds, viaService, pending>>
    /\ UNCHANGED exceptStoreVars

\* One call of update_<entity>, run without interruption.
ServiceUpdate ==
    /\ clock < MaxClock
    /\ \E kind \in {k \in Kinds : OthersEmpty(k)}, id \in IdStrings :
        \E payload \in UpdatePayloads(kind) :
            \E res \in {update_entity(kind, id, payload, db[kind], clock + 1)} :
                /\ sCall' = [Call("update", kind) EXCEPT !.id = id, !.payload = payload]
                /\ sRet' = res.ret
                /\ db' = [db EXCEPT ![kind] = res.coll]
                /\ clock' = IF res.read_clock THEN clock + 1 ELSE clock
    /\ UNCHANGED <<madeIds, viaService, pending>>
    /\ UNCHANGED exceptStoreVars

\* One call of delete_<entity>.
ServiceDelete ==
    /\ clock < MaxClock
    /\ \E kind \in {k \in Kinds : OthersEmpty(k)}, id \in IdStrings :
        \E res \in {delete_entity(kind, id, db[kind], clock + 1)} :
            /\ sCall' = [Call("delete", kind) EXCEPT !.id = id]
            /\ sRet' = res.ret
            /\ db' = [db EXCEPT ![kind] = res.coll]
            /\ clock' = IF res.read_clock THEN clock + 1 ELSE clock
    /\ UNCHANGED <<madeIds, viaService, pending>>
    /\ UNCHANGED exceptStoreVars

(* ------------- an update interleaved with other calls ------------------ *)

\* update_<entity> up to and including `await coll.update_one(...)`: a call
\* that raises or takes the early return ends here, one whose update_one
\* matched is suspended before its find_one.
UpdateWrite ==
    /\ ~pending.active
    /\ clock < MaxClock
    /\ \E kind \in {k \in Kinds : OthersEmpty(k)}, id \in IdStrings :
        \E payload \in UpdatePayloads(kind) :
            \E res \in {update_entity(kind, id, payload, db[kind], clock + 1)} :
                LET call == [Call("update", kind) EXCEPT !.id = id, !.payload = payload]
                    suspended == ~IsHTTPException(res.ret) /\ res.read_clock
                IN  /\ db' = [db EXCEPT ![kind] = res.coll]
                    /\ clock' = IF res.read_clock THEN clock + 1 ELSE clock
                    /\ pending' = IF suspended THEN [active |-> TRUE, call |-> call]
                                  ELSE NoPending
                    /\ sCall' = IF suspended THEN sCall ELSE call
                    /\ sRet' = IF suspended THEN sRet ELSE res.ret
    /\ UNCHANGED <<madeIds, viaService>>
    /\ UNCHANGED exceptStoreVars

\* The rest of the suspended update: `doc = await coll.find_one({"_id": oid})`,
\* the assertion and the return.
UpdateRead ==
    /\ pending.active
    /\ sCall' = pending.call
    /\ sRet' = update_read(db[pending.call.kind], pending.call.id.oid)
    /\ pending' = NoPending
    /\ UNCHANGED <<db, clock, madeIds, viaService>>
    /\ UNCHANGED exceptStoreVars

(* ------------------ scripts/seed.py and clear_db.py -------------------- *)

\* seed_tag of seed() and of clear_seeded().
SeedTag == Some("sample_seed_v1")

\* The documents seed() upserts, in the order of its calls of _upsert_user,
\* _upsert_content and _upsert_assessment.
SeedSamples == <<
    [kind |-> "users",
     fields |-> [name |-> Some(<<"A", "l", "i", "c", "e", " ", "E", "x", "a", "m", "p", "l", "e">>),
                 email |-> Some(<<"a", "l", "i", "c", "e", "@", "e", "x", "a", "m", "p", "l", "e", ".", "c", "o", "m">>)]],
    [kind |-> "users",
     fields |-> [name |-> Some(<<"B", "o", "b", " ", "E", "x", "a", "m", "p", "l", "e">>),
                 email |-> Some(<<"b", "o", "b", "@", "e", "x", "a", "m", "p", "l", "e", ".", "c", "o", "m">>)]],
    [kind |-> "users",
     fields |-> [name |-> Some(<<"I", "n", "s", "t", "r", "u", "c", "t", "o", "r", " ", "E", "x", "a", "m", "p", "l", "e">>),
                 email |-> Some(<<"i", "n", "s", "t", "r", "u", "c", "t", "o", "r", "@", "e", "x", "a", "m", "p", "l", "e", ".", "c", "o", "m">>)]],
    [kind |-> "content",
     fields |-> [title |-> Some(<<"I", "n", "t", "r", "o", " ", "t", "o", " ", "D", "i", "g", "i", "t", "a", "l", "T", "3">>),
                 slug |-> Some(<<"i", "n", "t", "r", "o", "-", "t", "o", "-", "d", "i", "g", "i", "t", "a", "l", "t", "3">>)]],
    [kind |-> "content",
     fields |-> [title |-> Some(<<"L", "M", "S", " ", "B", "a", "s", "i", "c", "s">>),
                 slug |-> Some(<<"l", "m", "s", "-", "b", "a", "s", "i", "c", "s">>)]],
    [kind |-> "content",
     fields |-> [title |-> Some(<<"A", "s", "s", "e", "s", "s", "m", "e", "n", "t", " ", "1", "0", "1">>),
                 slug |-> Some(<<"a", "s", "s", "e", "s", "s", "m", "e", "n", "t", "-", "1", "0", "1">>)]],
    [kind |-> "assessments",
     fields |-> [title |-> Some(<<"Q", "u", "i", "z", ":", " ", "I", "n", "t", "r", "o", " ", "t", "o", " ", "D", "i", "g", "i", "t", "a", "l", "T", "3">>),
                 course_id |-> Some(<<"i", "n", "t", "r", "o", "-", "t", "o", "-", "d", "i", "g", "i", "t", "a", "l", "t", "3">>),
                 module_id |-> None]],
    [kind |-> "assessments",
     fields |-> [title |-> Some(<<"Q", "u", "i", "z", ":", " ", "L", "M", "S", " ", "B", "a", "s", "i", "c", "s">>),
                 course_id |-> Some(<<"l", "m", "s", "-", "b", "a", "s", "i", "c", "s">>),
                 module_id |-> None]]
>>

\* The filter of each upsert: a user is matched by its lower-cased e-mail,
\* content by its slug, an assessment by seed_tag, title, course_id and
\* module_id.
UpsertFilter(kind, fields, d) ==
    IF kind = "users" THEN d.fields["email"] = Some(lower(fields["email"].value))
    ELSE IF kind = "content" THEN d.fields["slug"] = fields["slug"]
    ELSE d.seed_tag = SeedTag /\ d.fields = fields

\* The fields the $set of each upsert writes; the e-mail of a user in lower case.
UpsertFields(kind, fields) ==
    [f \in FieldsOf(kind) |->
        IF kind = "users" /\ f = "email" THEN Some(lower(fields[f].value)) ELSE fields[f]]

\* update_one(filter, {"$setOnInsert": {created_at}, "$set": {..., updated_at,
\* deleted_at: None, seed_tag}}, upsert=True): the collections it can leave.
\* It updates one document that matches the filter, whichever the server
\* finds first, and inserts a new one when none matches.
_upsert(kind, coll, fields, now, oid) ==
    LET matched == {d \in coll : UpsertFilter(kind, fields, d)}
    IN  IF matched = {}
        THEN {coll \cup {[_id |-> oid, fields |-> UpsertFields(kind, fields),
                          created_at |-> now, updated_at |-> now,
                          deleted_at |-> NoNumber, seed_tag |-> SeedTag]}}
        ELSE {(coll \ {d}) \cup {[d EXCEPT !.fields = UpsertFields(kind, fields),
                                           !.updated_at = now,
                                           !.deleted_at = NoNumber,
                                           !.seed_tag = SeedTag]} : d \in matched}

\* The upserts of seed() from the i-th on, started at time `now` with `oid` the
\* next ObjectId: the databases they can leave.
RECURSIVE seed_from(_, _, _, _)
seed_from(i, database, now, oid) ==
    IF i > Len(SeedSamples) THEN {database}
    ELSE LET s == SeedSamples[i]
         IN  UNION {seed_from(i + 1, [database EXCEPT ![s.kind] = coll], now + 1, oid + 1) :
                        coll \in _upsert(s.kind, database[s.kind], s.fields, now, oid)}

\* _counts(db, seed_tag=seed_tag)
_counts(database) ==
    [k \in Kinds |-> [total |-> Cardinality(database[k]),
                      seeded |-> Cardinality({d \in database[k] : d.seed_tag = SeedTag})]]

\* One run of seed(): the indexes are ensured, the samples are upserted one
\* after the other, each at its own clock reading, and the counts are returned.
Seed ==
    /\ ~pending.active
    /\ clock < MaxClock
    /\ \E database \in seed_from(1, db, clock + 1, madeIds + 1) :
        /\ db' = database
        /\ sRet' = [seed_tag |-> SeedTag, counts |-> _counts(database)]
    /\ sCall' = Call("seed", "users")
    /\ clock' = clock + Len(SeedSamples)
    /\ madeIds' = madeIds + Len(SeedSamples)
    /\ UNCHANGED <<viaService, pending>>
    /\ UNCHANGED exceptStoreVars

\* clear_seeded(): delete_many({"seed_tag": seed_tag}) on each collection.
clear_seeded(database) ==
    [k \in Kinds |-> {d \in database[k] : d.seed_tag # SeedTag}]

\* One run of clear_seeded(); it returns the number of documents deleted.
ClearSeeded ==
    /\ ~pending.active
    /\ \E database \in {clear_seeded(db)} :
        /\ database # db
        /\ db' = database
        /\ sRet' = [seed_tag |-> SeedTag,
                    deleted |-> [k \in Kinds |-> Cardinality(db[k] \ database[k])]]
    /\ sCall' = Call("clear_seeded", "users")
    /\ UNCHANGED <<clock, madeIds, viaService, pending>>
    /\ UNCHANGED exceptStoreVars

(* ------------- concurrent callers of _JWKSCache.get -------------------- *)

\* The threads that call _JWKS_CACHE.get and the URIs they call it with.
Callers == 1..MaxCallers

JwksUris == {<<"u">>, <<"v">>}

NoGet == [pc |-> "idle", uri |-> <<>>, ret |-> NotCalled]

InitJwks == getters = [c \in Callers |-> NoGet]

\* `if jwks_uri not in self._by_uri`: the caller enters get and tests the key.
GetCheck ==
    \E c \in Callers :
        /\ getters[c].pc = "idle"
        /\ \E jwks_uri \in JwksUris :
            getters' = [getters EXCEPT ![c] =
                [pc |-> IF jwks_uri \in {e.uri : e \in jwksByUri} THEN "read" ELSE "insert",
                 uri |-> jwks_uri, ret |-> NotCalled]]
        /\ UNCHANGED <<jwksByUri, jwksMade>>
        /\ UNCHANGED exceptJwksVars

\* `self._by_uri[jwks_uri] = PyJWKClient(jwks_uri)`: a new client is stored
\* under the key, in place of the one stored there, if any.
GetInsert ==
    \E c \in Callers :
        /\ getters[c].pc = "insert"
        /\ jwksMade < MaxClients
        /\ jwksMade' = jwksMade + 1
        /\ jwksByUri' = {e \in jwksByUri : e.uri # getters[c].uri}
                            \cup {[uri |-> getters[c].uri, client |-> jwksMade + 1]}
        /\ getters' = [getters EXCEPT ![c].pc = "read"]
        /\ UNCHANGED exceptJwksVars

\* `return self._by_uri[jwks_uri]`: the client stored under the key now, or
\* KeyError when the key is not in the dict.
GetRead ==
    \E c \in Callers :
        /\ getters[c].pc = "read"
        /\ LET found == {e \in jwksByUri : e.uri = getters[c].uri}
           IN  getters' = [getters EXCEPT ![c].pc = "done",
                                          ![c].ret = IF found = {} THEN Raised("KeyError")
                                                     ELSE CHOOSE e \in found : TRUE]
        /\ UNCHANGED <<jwksByUri, jwksMade>>
        /\ UNCHANGED exceptJwksVars

\* The caller is ready for its next call.
GetNext ==
    \E c \in Callers :
        /\ getters[c].pc = "done"
        /\ getters' = [getters EXCEPT ![c] = NoGet]
        /\ UNCHANGED <<jwksByUri, jwksMade>>
        /\ UNCHANGED exceptJwksVars

(* --------------------------- specifications --------------------------- *)

Init == InitRoles /\ InitGuard /\ InitRbac /\ InitClaims /\ InitVerify /\ InitStore /\ InitJwks

NextRoles == FromStrCall \/ FromStrNext

SpecRoles == Init /\ [][NextRoles]_vars

NextGuard == EnforceCall \/ EnforceNext \/ ImportSecurityPolicies \/ ImportRouter

SpecGuard == Init /\ [][NextGuard]_vars

NextRbac ==
    \/ SetEnv
    \/ CreateApp
    \/ ClearSettingsCache
    \/ Receive
    \/ ResolvePrincipal
    \/ Enforce
    \/ Endpoint
    \/ Respond

SpecRbac == Init /\ [][NextRbac]_vars

NextClaims == PrincipalNew \/ ClaimsCall \/ ClaimsNext

SpecClaims == Init /\ [][NextClaims]_vars

NextVerify == VerifyCall \/ VerifyNext \/ ClearJwksCache

SpecVerify == Init /\ [][NextVerify]_vars

NextJwks ==
    \/ GetCheck
    \/ GetInsert
    \/ GetRead
    \/ GetNext
    \/ ClearJwksCache

SpecJwks == Init /\ [][NextJwks]_vars

NextServices ==
    \/ ServiceCreate
    \/ ServiceGet
    \/ ServiceList
    \/ ServiceUpdate
    \/ ServiceDelete

SpecServices == Init /\ [][NextServices]_vars

NextRace ==
    \/ ServiceCreate
    \/ UpdateWrite
    \/ UpdateRead
    \/ ServiceDelete

SpecRace == Init /\ [][NextRace]_vars

NextSeed ==
    \/ ServiceCreate
    \/ ServiceUpdate
    \/ ServiceDelete
    \/ Seed
    \/ ClearSeeded

SpecSeed == Init /\ [][NextSeed]_vars

(* ------------------------------- claims -------------------------------- *)

\* The roles the Principal of the guard call holds.
GuardHeld == {gUser.roles[i] : i \in 1..Len(gUser.roles)}

\* C1: for every principal and every non-empty required role set, the guard
\* returns the principal iff the principal holds at least one required role,
\* and otherwise raises 403; holding a role outside the required set never
\* helps (no role hierarchy).
C1_GuardIffIntersection ==
    (gPc = "returned" /\ gRequired # {}) =>
        IF GuardHeld \cap gRequired # {}
        THEN gRet = gUser
        ELSE /\ IsHTTPException(gRet)
             /\ gRet.status_code = 403

\* C1 witness: a principal holding SuperAdmin alone was refused where only
\* Learner is required.
C1_Witness ==
    /\ gPc = "returned"
    /\ gRequired = {"LEARNER"}
    /\ GuardHeld = {"SUPERADMIN"}
    /\ IsHTTPException(gRet)

\* C2: when the required role set is empty the guard returns the principal,
\* whatever roles it holds.
C2_EmptyRequiredSucceeds ==
    (gPc = "returned" /\ gRequired = {}) => gRet = gUser

\* The roles the resolved Principal of the request holds.
RequestHeld == {rqPrincipal[1].roles[i] : i \in 1..Len(rqPrincipal[1].roles)}

\* C3: a request without any credential is answered 401, never 403, and the
\* guard is not evaluated for it, under the default configuration and with
\* AUTH_STUB=false.
C3_NoCredentialIs401 ==
    (rqPc = "responded" /\ NoCredential(rq)) =>
        /\ rqResponse[1].status_code = 401
        /\ ~rqGuardRan

C5_ForbiddenBodyDetail ==
    (rqPc = "responded" /\ rqGuardRan /\ rqResponse[1].status_code = 403) =>
        /\ "detail" \in DOMAIN rqResponse[1].body
        /\ rqResponse[1].body.detail = [msg |-> "Forbidden", arg |-> <<>>]

\* C6: each router imports with its GET guards built from READ_ROLES, its POST
\* and PUT guards from WRITE_ROLES and its DELETE guard from ADMIN_ROLES, so
\* that a principal holding only Admin passes the guard of every endpoint.
C6_RouterGuardsByTier ==
    \A r \in Routers :
        routers[r].status # "unimported" =>
            /\ routers[r].status = "loaded"
            /\ \A e \in Endpoints :
                /\ routers[r].guards[e] = policies.groups[EndpointGroup(e)]
                /\ enforce(Principal(SubjectU1, None, <<"ADMIN">>), routers[r].guards[e])
                       = Principal(SubjectU1, None, <<"ADMIN">>)

\* C7: once security_policies is imported, ADMIN_ROLES = {Admin, SuperAdmin},
\* WRITE_ROLES = {Instructor, Manager, Admin, SuperAdmin}, READ_ROLES = all six
\* roles, and ADMIN_ROLES is within WRITE_ROLES within READ_ROLES.
C7_RoleGroupsNested ==
    policies.status # "unimported" =>
        /\ policies.status = "loaded"
        /\ policies.groups.ADMIN_ROLES = {"ADMIN", "SUPERADMIN"}
        /\ policies.groups.WRITE_ROLES = {"INSTRUCTOR", "MANAGER", "ADMIN", "SUPERADMIN"}
        /\ policies.groups.READ_ROLES = Role
        /\ policies.groups.ADMIN_ROLES \subseteq policies.groups.WRITE_ROLES
        /\ policies.groups.WRITE_ROLES \subseteq policies.groups.READ_ROLES

\* C8: every spelling of a role's name, in any letter case and with '-', '_'
\* or a blank between its words, parses to that role.
C8_FromStrAcceptsSpellings ==
    fsPc = "returned" =>
        \A r \in Role : fsArg \in Spellings(r) => fsRet = r

\* C9: parsing a role's string value returns that role, and no string is
\* accepted for two different roles.
C9_RoundTrip ==
    fsPc = "returned" =>
        /\ \A r \in Role : fsArg = RoleValue(r) => fsRet = r
        /\ Cardinality(RoleMatches(strip(fsArg))) <= 1

\* C9 witness: the value of SuperAdmin was parsed back to SuperAdmin.
C9_Witness ==
    /\ fsPc = "returned"
    /\ fsArg = RoleValue("SUPERADMIN")
    /\ fsRet = "SUPERADMIN"

\* C10: a string that names no role, the empty and the blank string included,
\* makes from_str raise; no role is returned for it.
C10_UnknownFails ==
    (fsPc = "returned" /\ \A r \in Role : ~Names(fsArg, r)) =>
        /\ fsRet = ValueError
        /\ fsRet \notin Role

\* C10 witness: a blank string and an unknown word were both rejected.
C10_Witness ==
    /\ fsPc = "returned"
    /\ fsArg \in {<<" ">>, <<"g", "u", "e", "s", "t">>}
    /\ fsRet = ValueError

\* What the last call gave is a Principal.
IsPrincipal(x) == "subject" \in DOMAIN x

\* C11: every Principal has a non-empty subject: building one with an empty
\* subject fails, and neither the header resolver nor the claims mapping gives
\* a Principal whose subject is empty.
C11_SubjectNonEmpty ==
    /\ (cmPc = "returned" /\ pcSubject = Some(<<>>)) => IsRaised(pcRet)
    /\ (cmPc = "returned" /\ IsPrincipal(cmRet)) => cmRet.subject # <<>>
    /\ rqPrincipal # <<>> => rqPrincipal[1].subject # <<>>

\* The identity claims in their order, and the positions of those that hold a
\* value that is not empty once trimmed.
IdentityClaims(claims) == <<claims.sub, claims.oid, claims.user_id>>

NonEmptyIdentity(claims) ==
    {i \in 1..3 : /\ IdentityClaims(claims)[i].kind = "str"
                  /\ strip(IdentityClaims(claims)[i].str) # <<>>}

Is401(x) == IsHTTPException(x) /\ x.status_code = HTTP_401_UNAUTHORIZED

\* C18: the subject is the first of sub, oid, user_id that is not empty (a
\* blank sub is passed over), and the mapping fails with 401 exactly when none
\* of the three holds a non-empty value.
C18_SubjectFirstNonEmpty ==
    (cmPc = "returned" /\ cmRet # NotCalled) =>
        IF NonEmptyIdentity(cmClaims) = {}
        THEN Is401(cmRet)
        ELSE /\ ~Is401(cmRet)
             /\ IsPrincipal(cmRet) =>
                    cmRet.subject =
                        strip(IdentityClaims(cmClaims)[SetMin(NonEmptyIdentity(cmClaims))].str)

\* The trimmed, non-empty names a direct claim lists: the comma-separated
\* pieces of a string, the items of a list.
DirectNames(c) ==
    LET raw == IF c.kind = "str" THEN split(c.str, ",")
               ELSE IF c.kind = "list" THEN c.list ELSE <<>>
        trimmed == [i \in 1..Len(raw) |-> strip(raw[i])]
    IN  SelectSeq(trimmed, LAMBDA q : q # <<>>)

\* The names after "role:" / "roles:" in the parts of the scope claim (scp
\* when there is no scope).
HasPrefix(q, pre) == Len(q) >= Len(pre) /\ SubSeq(q, 1, Len(pre)) = pre

ScopeNames(claims) ==
    LET c == IF Truthy(claims.scope) THEN claims.scope ELSE claims.scp
        parts == IF c.kind = "str" THEN split_ws(c.str) ELSE <<>>
        name(q) ==
            IF HasPrefix(lower(q), <<"r", "o", "l", "e", "s", ":">>)
            THEN SubSeq(q, 7, Len(q))
            ELSE IF HasPrefix(lower(q), <<"r", "o", "l", "e", ":">>)
            THEN SubSeq(q, 6, Len(q))
            ELSE <<>>
        names == [i \in 1..Len(parts) |-> strip(name(parts[i]))]
    IN  SelectSeq(names, LAMBDA q : q # <<>>)

\* Every name of the direct claims, roles first, then role, then groups.
AllDirectNames(claims) ==
    DirectNames(claims.roles) \o DirectNames(claims.role) \o DirectNames(claims.groups)

\* Every name in priority order: the direct claims, then the scope claim.
AllNames(claims) == AllDirectNames(claims) \o ScopeNames(claims)

\* C19: the roles of the mapped Principal are those named in roles, role,
\* groups and the role:/roles: parts of the scope claim: each of them once, in
\* the order of their first naming under that priority, and no other role.
C19_RolesUnionInOrder ==
    (cmPc = "returned" /\ IsPrincipal(cmRet)) =>
        LET out == cmRet.roles
            names == AllNames(cmClaims)
            found == [j \in 1..Len(names) |-> from_str(names[j])]
            first(r) == SetMin({j \in 1..Len(found) : found[j] = r})
        IN  /\ \A r \in Role :
                   (\E i \in 1..Len(out) : out[i] = r)
                       <=> (\E j \in 1..Len(found) : found[j] = r)
            /\ \A i, j \in 1..Len(out) : i # j => out[i] # out[j]
            /\ \A i, j \in 1..Len(out) : i < j => first(out[i]) < first(out[j])

\* C19 witness: roles "Learner,Admin", role "Admin", groups [Manager, Admin]
\* and a scope naming Instructor and admin gave Learner, Admin, Manager,
\* Instructor, each once.
C19_Witness ==
    /\ cmPc = "returned"
    /\ IsPrincipal(cmRet)
    /\ cmClaims.roles.kind = "str"
    /\ cmClaims.role.kind = "str"
    /\ cmClaims.groups.kind = "list"
    /\ Truthy(cmClaims.scope)
    /\ cmRet.roles = <<"LEARNER", "ADMIN", "MANAGER", "INSTRUCTOR">>

\* C20: with a subject present, a name in roles, role or groups that names no
\* role makes the mapping fail without a Principal; a name or part of the
\* scope claim that names no role is passed over, and the Principal is
\* returned with every role the other names give.
C20_StrictDirectLenientScope ==
    (cmPc = "returned" /\ cmRet # NotCalled /\ NonEmptyIdentity(cmClaims) # {}
        /\ ~Is401(cmRet)) =>
        LET direct == AllDirectNames(cmClaims)
            scoped == ScopeNames(cmClaims)
            directFound == [j \in 1..Len(direct) |-> from_str(direct[j])]
            scopedFound == [j \in 1..Len(scoped) |-> from_str(scoped[j])]
            found == directFound \o scopedFound
        IN  IF \E j \in 1..Len(directFound) : directFound[j] = ValueError
            THEN ~IsPrincipal(cmRet) /\ IsRaised(cmRet)
            ELSE /\ IsPrincipal(cmRet)
                 /\ \A j \in 1..Len(found) :
                        found[j] \in Role =>
                            \E i \in 1..Len(cmRet.roles) : cmRet.roles[i] = found[j]

\* C20 witness: a scope with the parts "openid", "roles:bogus" and "role:"
\* next to "role:Instructor" was mapped to a Principal holding Instructor.
C20_Witness ==
    /\ cmPc = "returned"
    /\ IsPrincipal(cmRet)
    /\ Truthy(cmClaims.scope)
    /\ \E i \in 1..Len(ScopeNames(cmClaims)) :
           from_str(ScopeNames(cmClaims)[i]) = ValueError
    /\ \E i \in 1..Len(cmRet.roles) : cmRet.roles[i] = "INSTRUCTOR"

\* C20 witness of the strict half: roles "Admin,bogus" with a subject present
\* raised from_str's ValueError.
C20_StrictWitness ==
    /\ cmPc = "returned"
    /\ NonEmptyIdentity(cmClaims) # {}
    /\ \E i \in 1..Len(DirectNames(cmClaims.roles)) :
           from_str(DirectNames(cmClaims.roles)[i]) = ValueError
    /\ cmRet = Raised(ValueError)

\* A setting that is unset, empty or only blanks.
IsBlank(opt) == ~opt.present \/ strip(opt.value) = <<>>

\* C16: with the issuer or the JWKS URI unset or blank, verify_access_token
\* raises a 500 (not a 401) whatever the token is, and leaves the JWKS cache
\* as it was: no client is looked up or constructed.
C16_MissingConfigIs500 ==
    [][(vPc = "idle" /\ vPc' = "returned"
            /\ (IsBlank(vSettings'.oidc_issuer) \/ IsBlank(vSettings'.oidc_jwks_uri)))
        => /\ IsHTTPException(vRet')
           /\ vRet'.status_code = HTTP_500_INTERNAL_SERVER_ERROR
           /\ vRet'.status_code # HTTP_401_UNAUTHORIZED
           /\ jwksByUri' = jwksByUri
           /\ jwksMade' = jwksMade]_vars

\* C16 witness: a token that passes every check was verified with an issuer
\* set and a blank JWKS URI, and the call raised a 500.
C16_Witness ==
    /\ vPc = "returned"
    /\ vToken.fails = "none"
    /\ ~IsBlank(vSettings.oidc_issuer)
    /\ IsBlank(vSettings.oidc_jwks_uri)
    /\ IsHTTPException(vRet)
    /\ vRet.status_code = HTTP_500_INTERNAL_SERVER_ERROR

\* C17: a failed verification does not tell which check failed: an expired
\* token gets "Token expired.", and a malformed token, a signature, issuer or
\* audience mismatch and a token not yet valid all get one generic message.
C17_GenericFailureMessage ==
    (vPc = "returned" /\ Is401(vRet)
        /\ Raises(vToken, [audience |-> vSettings.oidc_audience]) # "none") =>
        IF vToken.fails = "ExpiredSignatureError"
        THEN vRet.detail = [msg |-> "Token expired.", arg |-> <<>>]
        ELSE vRet.detail = [msg |-> "Invalid token.", arg |-> <<>>]

\* The settings the request in flight is resolved with: stub mode or real mode.
StubMode == settingsCache # <<>> /\ settingsCache[1].auth_stub
RealMode == settingsCache # <<>> /\ ~settingsCache[1].auth_stub

\* The request is past the resolution of its principal.
Resolved == rqPc \in {"guard", "endpoint", "responded"}

\* The trimmed, non-empty entries of the X-Auth-Roles header of the request.
HeaderRoleNames ==
    IF rq.x_auth_roles.present THEN DirectNames(StrClaim(rq.x_auth_roles.value))
    ELSE <<>>

\* C12: in stub mode the principal is given by the three headers: the subject
\* is X-Auth-Subject or the placeholder "stub-user", the email is
\* X-Auth-Email, and the roles are exactly those the non-empty trimmed
\* entries of X-Auth-Roles name (none for an absent or empty header); when
\* every entry names a role a principal is resolved.
C12_StubPrincipalFromHeaders ==
    (StubMode /\ Resolved) =>
        LET names == HeaderRoleNames
        IN  /\ (\A i \in 1..Len(names) : from_str(names[i]) \in Role)
                   => rqPrincipal # <<>>
            /\ rqPrincipal # <<>> =>
                   /\ rqPrincipal[1].subject =
                          (IF rq.x_auth_subject.present /\ rq.x_auth_subject.value # <<>>
                           THEN rq.x_auth_subject.value ELSE StubUser)
                   /\ rqPrincipal[1].email = rq.x_auth_email
                   /\ {rqPrincipal[1].roles[i] : i \in 1..Len(rqPrincipal[1].roles)}
                          = {from_str(names[i]) : i \in 1..Len(names)}

\* C12 witness: X-Auth-Roles "Learner, admin " without X-Auth-Subject was
\* resolved to "stub-user" holding exactly Learner and Admin.
C12_Witness ==
    /\ StubMode
    /\ rqPrincipal # <<>>
    /\ ~rq.x_auth_subject.present
    /\ rq.x_auth_roles = Some(<<"L", "e", "a", "r", "n", "e", "r", ",",
                                " ", "a", "d", "m", "i", "n", " ">>)
    /\ rqPrincipal[1].subject = StubUser
    /\ {rqPrincipal[1].roles[i] : i \in 1..Len(rqPrincipal[1].roles)}
           = {"LEARNER", "ADMIN"}

\* C13: in stub mode a non-empty entry of X-Auth-Roles that names no role
\* ends the request with 400: no principal is resolved, the guard does not
\* run and the service is not called, whatever the other entries are.
C13_UnknownRoleTokenIs400 ==
    (StubMode /\ Resolved
        /\ \E i \in 1..Len(HeaderRoleNames) : from_str(HeaderRoleNames[i]) = ValueError) =>
        /\ rqPrincipal = <<>>
        /\ ~rqGuardRan
        /\ ~rqServiceCalled
        /\ rqPc = "responded"
        /\ rqResponse[1].status_code = HTTP_400_BAD_REQUEST

\* C13 witness: "Learner,bogus" sent to an endpoint that requires Learner was
\* answered 400.
C13_Witness ==
    /\ StubMode
    /\ rqPc = "responded"
    /\ rqRequired = {"LEARNER"}
    /\ rq.x_auth_roles = Some(<<"L", "e", "a", "r", "n", "e", "r", ",",
                                "b", "o", "g", "u", "s">>)
    /\ rqResponse[1].status_code = HTTP_400_BAD_REQUEST

\* C14: in real mode a request without an Authorization header, or with one
\* that is not `Bearer <token>`, is answered 401 with the challenge
\* WWW-Authenticate: Bearer.
C14_MissingBearerIs401 ==
    (RealMode /\ rqPc = "responded" /\ _extract_bearer_token(rq.authorization) = None) =>
        /\ rqResponse[1].status_code = HTTP_401_UNAUTHORIZED
        /\ <<"WWW-Authenticate", "Bearer">> \in rqResponse[1].headers

\* C15: in real mode the outcome for a bearer token is what the verifier gives
\* for it: a Principal, or the 401 or 500 it raises; the stub headers are not
\* read and no stub principal stands in after a failure.
C15_RealModeUsesVerifier ==
    (RealMode /\ Resolved /\ _extract_bearer_token(rq.authorization) # None) =>
        /\ rqPrincipal # <<>> =>
               rqPrincipal[1].subject # HeaderOr(rq.x_auth_subject, StubUser)
        /\ rqPrincipal = <<>> =>
               rqResponse[1].status_code
                   \in {HTTP_401_UNAUTHORIZED, HTTP_500_INTERNAL_SERVER_ERROR}

(* ------------------- claims about the entity services ------------------ *)

Is404(x) == IsHTTPException(x) /\ x.status_code = HTTP_404_NOT_FOUND

\* The collection the last service call addressed, its soft-deleted documents
\* and the documents of that collection with the id the call named.
Coll == db[sCall.kind]

SoftDeleted(d) == d.deleted_at.present

Named(coll, id) == {d \in coll : IdOf(d._id) = id}

\* The step is a call of operation op of a service.
IsCall(op) == sCall'.op = op

\* C21, reads: in every state whose last call is a get, the get of a
\* soft-deleted id gave 404 and the get of a stored, not deleted id gave that
\* document as stored; in every state whose last call is a list, no item is a
\* soft-deleted document and total is the number of documents not deleted.
C21_Reads ==
    /\ sCall.op = "get" =>
        \A d \in Named(Coll, sCall.id) :
            IF SoftDeleted(d) THEN Is404(sRet) ELSE sRet = _doc_to_read(d)
    /\ sCall.op = "list" =>
        /\ \A i \in 1..Len(sRet.items) :
            \A d \in Named(Coll, sRet.items[i].id) : ~SoftDeleted(d)
        /\ sRet.total = Cardinality({d \in Coll : ~SoftDeleted(d)})

\* C21, the delete step: a delete that succeeds marks the document it names as
\* deleted and leaves every other document, of every collection, as it was.
C21_DeleteStep ==
    IsCall("delete") /\ ~IsHTTPException(sRet') =>
        /\ \E d \in Named(db[sCall'.kind], sCall'.id) :
            /\ ~SoftDeleted(d)
            /\ db' = [db EXCEPT ![sCall'.kind] =
                        (@ \ {d}) \cup {[d EXCEPT !.deleted_at = Some(clock'),
                                                  !.updated_at = clock']}]
        /\ \A d \in Named(db'[sCall'.kind], sCall'.id) : SoftDeleted(d)

\* C21: after a successful soft-delete of an entity, every later get of its id
\* gives NotFound and every later list leaves it out of items and total, while
\* every other entity stays readable and unchanged.
C21_SoftDeletedIsHidden == [](C21_Reads) /\ [][C21_DeleteStep]_vars

\* C21 witness: a get of a soft-deleted id gave 404 while another document of
\* the collection is still not deleted.
C21_Witness ==
    /\ sCall.op = "get"
    /\ Is404(sRet)
    /\ \E d \in Named(Coll, sCall.id) : SoftDeleted(d)
    /\ \E e \in Coll : ~SoftDeleted(e)

\* C22, one step: every soft-deleted document is stored unchanged afterwards,
\* and a get, update or delete that names a soft-deleted document gives 404.
C22_Step ==
    /\ \A k \in Kinds : \A d \in db[k] : SoftDeleted(d) => d \in db'[k]
    /\ \A op \in {"get", "update", "delete"} :
        (IsCall(op) /\ \E d \in Named(db[sCall'.kind], sCall'.id) : SoftDeleted(d))
            => Is404(sRet')

\* C22: soft-deleted is absorbing under the service operations: the document
\* is never removed, none of its fields changes again, and every later delete,
\* update or get of its id gives NotFound (a second delete fails).
C22_SoftDeletedIsAbsorbing == [][C22_Step]_vars

\* C22 witness: a delete of a document that an earlier call soft-deleted gave 404.
C22_Witness ==
    /\ sCall.op = "delete"
    /\ Is404(sRet)
    /\ \E d \in Named(Coll, sCall.id) : SoftDeleted(d) /\ d.deleted_at.value < clock

\* C23, the step: an update whose payload provides no field leaves every
\* collection and the clock as they were, and gives the stored document when
\* the id names one that is not deleted and 404 otherwise.
C23_Step ==
    IsCall("update") /\ Provided(sCall'.kind, sCall'.payload) = {} =>
        /\ db' = db
        /\ clock' = clock
        /\ LET live == {d \in Named(db[sCall'.kind], sCall'.id) : ~SoftDeleted(d)}
           IN  IF live = {} THEN Is404(sRet')
               ELSE \A d \in live : sRet' = _doc_to_read(d)

\* C23: an update that provides no field returns the current record and writes
\* nothing, updated_at included; with an absent, invalid or soft-deleted id it
\* gives NotFound.
C23_EmptyUpdateWritesNothing == [][C23_Step]_vars

\* C23 witness: an update without fields returned a document that an earlier
\* update had changed, with the updated_at of that earlier update.
C23_Witness ==
    /\ sCall.op = "update"
    /\ Provided(sCall.kind, sCall.payload) = {}
    /\ \E d \in Named(Coll, sCall.id) :
        /\ sRet = _doc_to_read(d)
        /\ d.created_at < d.updated_at
        /\ d.updated_at <= clock

\* What an update with payload p makes of document d at time now: the fields
\* p provides take p's values (the e-mail of a user in lower case), updated_at
\* becomes now, and nothing else differs.
Updated(kind, d, p, now) ==
    [d EXCEPT !.fields = [f \in FieldsOf(kind) |->
                            IF f \in Provided(kind, p)
                            THEN IF kind = "users" /\ f = "email"
                                 THEN Some(lower(p[f].value)) ELSE p[f]
                            ELSE d.fields[f]],
              !.updated_at = now]

\* C24, the step: an update that provides some field and succeeds replaces the
\* one document it names, which is not deleted, by its Updated form and returns
\* it; one that fails leaves every collection as it was, and it fails with 404
\* when no document that is not deleted has the id.
C24_Step ==
    IsCall("update") /\ Provided(sCall'.kind, sCall'.payload) # {} =>
        LET kind == sCall'.kind
            live == {d \in Named(db[kind], sCall'.id) : ~SoftDeleted(d)}
        IN  /\ live = {} => Is404(sRet')
            /\ IsHTTPException(sRet') => db' = db
            /\ ~IsHTTPException(sRet') =>
                \E d \in live :
                    LET new == Updated(kind, d, sCall'.payload, clock')
                    IN  /\ db' = [db EXCEPT ![kind] = (@ \ {d}) \cup {new}]
                        /\ sRet' = _doc_to_read(new)
                        /\ clock' > clock

\* C24: an update that provides a subset of the fields changes, on the one
\* targeted document that is not deleted, exactly those fields and updated_at,
\* and leaves id, created_at, deleted_at, the other fields and every other
\* document unchanged; with an absent or soft-deleted target it gives NotFound
\* and changes nothing.
C24_PartialUpdateFrame == [][C24_Step]_vars

\* C24 witness: an update that provides one field and not another succeeded
\* on a document of a collection that holds a second document.
C24_Witness ==
    /\ sCall.op = "update"
    /\ ~IsHTTPException(sRet)
    /\ Provided(sCall.kind, sCall.payload) # {}
    /\ Provided(sCall.kind, sCall.payload) # FieldsOf(sCall.kind)
    /\ \E d \in Named(Coll, sCall.id) : d.updated_at = clock /\ Coll \ {d} # {}

\* C25: for every skip >= 0 and limit in 1..200 the list echoes skip and limit,
\* returns at most limit items, none of them soft-deleted, and reports as total
\* the number of documents not deleted, whatever skip and limit are; a
\* parameter left out counts as skip 0 and limit 50.
C25_ListEchoesAndCounts ==
    sCall.op = "list" =>
        LET skip == IF sCall.skip.present THEN sCall.skip.value ELSE 0
            limit == IF sCall.limit.present THEN sCall.limit.value ELSE 50
        IN  (skip >= 0 /\ limit >= 1 /\ limit <= 200) =>
                /\ sRet.skip = skip
                /\ sRet.limit = limit
                /\ Len(sRet.items) <= limit
                /\ \A i \in 1..Len(sRet.items) : ~sRet.items[i].deleted_at.present
                /\ sRet.total = Cardinality({d \in Coll : ~SoftDeleted(d)})

\* C25 witness: a list with skip 1 and limit 1 returned one item, the second
\* of two documents that are not deleted.
C25_Witness ==
    /\ sCall.op = "list"
    /\ sCall.skip = Some(1)
    /\ sCall.limit = Some(1)
    /\ Len(sRet.items) = 1
    /\ sRet.total = 2

\* C25 witness of the defaults: a list called without skip and limit.
C25_DefaultsWitness ==
    /\ sCall.op = "list"
    /\ ~sCall.skip.present
    /\ ~sCall.limit.present
    /\ sRet.total > 0

(* ---------------------- claims about the JWKS cache -------------------- *)

\* The URIs the cache has an entry for.
CachedUris(by_uri) == {e.uri : e \in by_uri}

\* C26, every state: the cache holds one client per URI, a client is cached
\* under one URI, and every cached client is one that was constructed.
C26_Keyed ==
    \A e, f \in jwksByUri :
        /\ (e.uri = f.uri \/ e.client = f.client) => e = f
        /\ e.client \in 1..jwksMade

\* C26, one step. A call that took a client took the cached one of its URI and
\* left the cache alone, or, for a URI that was not cached, took a client that
\* did not exist before and added it under that URI, keeping every other
\* entry. A call that took none left the cache alone, and any other step
\* leaves it alone or empties it.
C26_Step ==
    IF vPc = "idle" /\ vPc' = "returned" /\ vClient' # NoClient
    THEN LET uri == _resolve_jwks_config(vSettings').jwks_uri
         IN  IF uri \in CachedUris(jwksByUri)
             THEN /\ [uri |-> uri, client |-> vClient'] \in jwksByUri
                  /\ jwksByUri' = jwksByUri
                  /\ jwksMade' = jwksMade
             ELSE /\ vClient' > jwksMade
                  /\ jwksMade' = vClient'
                  /\ jwksByUri' = jwksByUri \cup {[uri |-> uri, client |-> vClient']}
    ELSE IF vPc = "idle" /\ vPc' = "returned"
    THEN jwksByUri' = jwksByUri /\ jwksMade' = jwksMade
    ELSE /\ jwksMade' = jwksMade
         /\ jwksByUri' = jwksByUri \/ jwksByUri' = {}

\* C26: the JWKS client cache is keyed by jwks_uri and changes only by
\* insertion or by clear_jwks_cache: a get of a cached URI returns the cached
\* client, the one the first get after the last clear created; a get of one URI
\* leaves the entries of the other URIs alone; after a clear the cache is empty
\* and the next get creates a new client.
C26_CacheKeyedByUri == [](C26_Keyed) /\ [][C26_Step]_vars

\* C26 witness: with two URIs cached, a call took the client that was
\* constructed first, after the second one had been constructed.
C26_Witness ==
    /\ vPc = "returned"
    /\ vClient = 1
    /\ jwksMade = 2
    /\ Cardinality(jwksByUri) = 2

\* C26 witness of the clear: the cache holds only a client constructed after
\* an earlier one was dropped by clear_jwks_cache, and a call took it.
C26_FreshWitness ==
    /\ vPc = "returned"
    /\ vClient = 2
    /\ jwksByUri = {[uri |-> _resolve_jwks_config(vSettings).jwks_uri, client |-> 2]}

\* C27: under every interleaving of concurrent _JWKSCache.get calls, clear
\* between their steps included, every call that has returned gave a client
\* constructed for its URI and none raised; and when no call is in progress
\* the cache holds at most one entry for each URI.
C27_GetRaceIsBenign ==
    /\ \A c \in Callers :
        getters[c].pc = "done" =>
            /\ ~IsRaised(getters[c].ret)
            /\ getters[c].ret.uri = getters[c].uri
            /\ getters[c].ret.client \in 1..jwksMade
    /\ (\A c \in Callers : getters[c].pc \in {"idle", "done"}) =>
            \A e, f \in jwksByUri : e.uri = f.uri => e = f

\* C27, the race alone: two calls for the same URI each constructed a client
\* and returned; the cache holds the one constructed last.
C27_TwoClients ==
    /\ \A c \in Callers : getters[c].pc = "done" /\ ~IsRaised(getters[c].ret)
    /\ \E c, d \in Callers :
        /\ getters[c].uri = getters[d].uri
        /\ getters[c].ret.client # getters[d].ret.client

\* The e-mail of a stored user in lower case.
LowerEmail(d) == lower(d.fields["email"].value)

\* C28, every state: no two stored users have the same lower-cased e-mail.
C28_Unique ==
    \A d, e \in db["users"] : d # e => LowerEmail(d) # LowerEmail(e)

\* C28, the step: a create_user whose e-mail, in lower case, is that of a
\* stored user, and an update_user of a user that is not deleted to the e-mail
\* of another stored user, give 409 and leave the store as it was.
C28_Step ==
    LET p == sCall'.payload
        taken(others) == /\ sCall'.kind = "users"
                         /\ p["email"].present
                         /\ \E d \in others : LowerEmail(d) = lower(p["email"].value)
    IN  /\ IsCall("create") /\ taken(db["users"]) =>
            /\ IsHTTPException(sRet') /\ sRet'.status_code = HTTP_409_CONFLICT
            /\ db' = db
        /\ IsCall("update") =>
            \A t \in Named(db["users"], sCall'.id) :
                ~SoftDeleted(t) /\ taken(db["users"] \ {t}) =>
                    /\ IsHTTPException(sRet') /\ sRet'.status_code = HTTP_409_CONFLICT
                    /\ db' = db

\* C28: no two stored user documents, soft-deleted ones included, ever have
\* the same lower-cased e-mail; a create_user or update_user that would make
\* such a pair fails with 409 and leaves the store unchanged, so the e-mail of
\* a soft-deleted user cannot be taken by a new user.
C28_EmailUnique == [](C28_Unique) /\ [][C28_Step]_vars

\* C28 witness: a create_user with the e-mail of a soft-deleted user, written
\* in another letter case, gave 409.
C28_Witness ==
    /\ sCall.op = "create"
    /\ sCall.kind = "users"
    /\ IsHTTPException(sRet) /\ sRet.status_code = HTTP_409_CONFLICT
    /\ \E d \in db["users"] :
        /\ SoftDeleted(d)
        /\ d.fields["email"] # sCall.payload["email"]
        /\ LowerEmail(d) = lower(sCall.payload["email"].value)

\* C28 witness of the update: an update_user to the e-mail of another user gave 409.
C28_UpdateWitness ==
    /\ sCall.op = "update"
    /\ sCall.kind = "users"
    /\ IsHTTPException(sRet) /\ sRet.status_code = HTTP_409_CONFLICT

\* C29: after service operations, a run of seed() and a run of
\* clear_seeded(), every document that a service create operation inserted is
\* still stored.
C29_ClearKeepsServiceDocuments ==
    \A id \in viaService : \E k \in Kinds : \E d \in db[k] : d._id = id

(* ------------- claims about interleaved calls and the scripts ---------- *)

\* C30: under every interleaving of an update and a soft-delete of the same
\* entity, an update that reports success returns a record that is not
\* soft-deleted, and the update does not fail on its `doc is not None`
\* assertion.
C30_UpdateReturnsLiveRecord ==
    sCall.op = "update" =>
        /\ sRet # Raised("AssertionError")
        /\ (~IsHTTPException(sRet) /\ ~IsRaised(sRet)) => ~sRet.deleted_at.present

\* C30, the assertion alone: no update fails on `assert doc is not None`.
C30_AssertionHolds == sCall.op = "update" => ~IsRaised(sRet)

====
